---- MODULE Spec2Model ----
(***************************************************************************)
(* A model of the VIA log-anomaly service: the Control Registry            *)
(* (control_service.py), the Tier-1 rhythm analyzers                        *)
(* (rhythm_analysis_service.py, analysis_service.py), the promotion of      *)
(* anomalies into daily Tier-2 partitions (promotion_service.py,            *)
(* qdrant_service.py), the periodic worker (worker.py) and the cluster      *)
(* listing (forensic_analysis_service.py, analysis_service.py), the        *)
(* /control endpoints (endpoints/control.py), fingerprinting and batch     *)
(* ingestion (ingestion_service.py, endpoints/ingest.py), the federated    *)
(* reads of Tier-2 with scored triage, the worker's sleep and failures,    *)
(* and the daily collection names of a window.                             *)
(* The calendar day of a timestamp is taken in UTC.                        *)
(*                                                                         *)
(* Timestamps are unix seconds.  The vector store is a typed service: a     *)
(* Tier-1 collection is a bag of points, a Tier-2 partition a set of        *)
(* EventCluster points.  Every `await` of the code is a separate step.      *)
(***************************************************************************)
EXTENDS Integers, Sequences, FiniteSets, Bags, TLC

\* ------------------------------------------------------------------------
\* Program constants
\* ------------------------------------------------------------------------
HISTORICAL_SAMPLE_SIZE == 10000
NOVELTY_MIN_COUNT == 2
FREQUENCY_MIN_COUNT == 3
\* FREQUENCY_STD_DEV_FACTOR = 2.5 and the std_dev floor 1.5, both doubled so
\* that the threshold comparison is exact integer arithmetic.
FREQUENCY_STD_DEV_FACTOR_X2 == 5
STD_DEV_FLOOR_X2 == 3
\* scroll limit of get_points_from_tier1
SCROLL_LIMIT == 100000
\* worker.py
ANALYSIS_INTERVAL_SEC == 60
\* AnalysisService: the historical window is the 24 hours before the window
HISTORICAL_WINDOW_SEC == 86400
MIN_COUNT_FOR_SPIKE == 10
SPIKE_MULTIPLIER == 5
\* datetime.fromtimestamp(ts).strftime('%Y_%m_%d'): one name per calendar day
SECONDS_PER_DAY == 86400

\* ------------------------------------------------------------------------
\* Bounds of the model
\* ------------------------------------------------------------------------
\* the clock starts one second before a local midnight
ClockStart == 86399
\* number of requests and clock steps the environment makes
MaxOps == 3

\* the largest recent count of the frequency scenarios
MaxRecent == 10

\* distance in seconds of the promoted clusters from ClockStart
SeedOffset == 10

\* size of the largest seeded Tier-2 partition: one more than the recommend limit
MaxStored == 51

\* number of analysis intervals after ClockStart within which the worker's
\* sleep is followed to its end
MaxIntervals == 1

\* the largest number of records in one posted batch
MaxBatch == 2

Hashes == {"F", "G"}
\* amounts by which the clock advances in one step
TickSteps == {1, 300}
\* sizes of one ingested batch of records sharing a fingerprint
BatchSizes == {1, 2, 4}
\* duration_sec of a SuppressRequest
Durations == {1, 300}
\* window_sec of a RhythmQuery
Windows == {1, 60}

VARIABLES
  now,                \* time.time(), whole seconds
  ops,                \* number of environment steps taken (bounded)
  tier1,              \* the Tier-1 collection: a bag of [rhythm_hash, ts]
  tier2,              \* the Tier-2 points: [collection, id, payload]
  db,                 \* patch_registry table: rhythm_hash -> row state
  patch_registry,     \* app.state.control_service.patch_registry
  suppression_cache,  \* app.state.control_service.suppression_cache
  worker,             \* the periodic worker and its analyzer invocation
  http,               \* the handler of POST /analysis/tier1/rhythm_anomalies
  thr,                \* per invocation: hashes silenced in the app registry
                      \* in every state from entry to classification
  listing,            \* last result of a cluster listing
  call,               \* last request to /control (or restart) and its response
  ingested            \* the last two points prepared by ingest_log_batch

vars == <<now, ops, tier1, tier2, db, patch_registry, suppression_cache,
          worker, http, thr, listing, call, ingested>>

\* ------------------------------------------------------------------------
\* Generic helpers
\* ------------------------------------------------------------------------
EmptyMap == [h \in {} |-> 0]

Max2(a, b) == IF a >= b THEN a ELSE b

MaxOf(S) == CHOOSE x \in S : \A y \in S : y <= x

MinOf(S) == CHOOSE x \in S : \A y \in S : x <= y

RECURSIVE GCD(_, _)
GCD(a, b) == IF b = 0 THEN a ELSE GCD(b, a % b)

RECURSIVE IsPowerOfTwo(_)
IsPowerOfTwo(n) == n = 1 \/ (n > 1 /\ n % 2 = 0 /\ IsPowerOfTwo(n \div 2))

\* a / b is a binary fraction: the float division a / b is exact
ExactQuotient(a, b) == IsPowerOfTwo(b \div GCD(a, b))

SeqRange(s) == {s[i] : i \in DOMAIN s}

\* the sub-bag of the points satisfying a timestamp range
PointsBetween(bag, lo, hi) ==
  [p \in {q \in DOMAIN bag : q.ts >= lo /\ q.ts <= hi} |-> bag[p]]

PointsBefore(bag, before) ==
  [p \in {q \in DOMAIN bag : q.ts < before} |-> bag[p]]

\* Counter(p.payload["rhythm_hash"] for p in points)[h]
CountOf(bag, h) ==
  BagCardinality([p \in {q \in DOMAIN bag : q.rhythm_hash = h} |-> bag[p]])

HashesOf(bag) == {p.rhythm_hash : p \in DOMAIN bag}

TimesOf(bag, h) == {p.ts : p \in {q \in DOMAIN bag : q.rhythm_hash = h}}

\* all orders in which a set of hashes can be iterated
Orders(S) ==
  {s \in [1..Cardinality(S) -> S] : \A i, j \in DOMAIN s : i # j => s[i] # s[j]}

\* ------------------------------------------------------------------------
\* Control Registry (control_service.py)
\* ------------------------------------------------------------------------
\* ControlService._load_patches, mutated: is_active is not looked at
_load_patches_all_rows(table) == {h \in DOMAIN table : table[h] # "absent"}

\* ControlService._load_patches
_load_patches(table) == {h \in DOMAIN table : table[h] = "active"}

\* ControlService.is_suppressed_or_patched, mutated: the suppression cache
\* is consulted before the patch registry
is_suppressed_or_patched_cache_first(patches, supp, h, t) ==
  IF h \in DOMAIN supp THEN t < supp[h]
  ELSE h \in patches

\* ControlService.is_suppressed_or_patched, mutated: the suppression holds
\* through the second of its expiry
is_suppressed_or_patched_through_expiry(patches, supp, h, t) ==
  IF h \in patches THEN TRUE
  ELSE IF h \in DOMAIN supp THEN t <= supp[h]
  ELSE FALSE

\* ControlService.is_suppressed_or_patched: the returned value
is_suppressed_or_patched(patches, supp, h, t) ==
  IF h \in patches THEN TRUE
  ELSE IF h \in DOMAIN supp THEN t < supp[h]
  ELSE FALSE

\* ControlService.is_suppressed_or_patched, mutated: every expired entry is
\* deleted
cache_after_check_purge(patches, supp, h, t) ==
  IF h \notin patches
  THEN [x \in {y \in DOMAIN supp : t < supp[y]} |-> supp[x]]
  ELSE supp

\* ControlService.is_suppressed_or_patched: the suppression cache it leaves
\* (an expired entry that is encountered is deleted)
cache_after_check(patches, supp, h, t) ==
  IF h \notin patches /\ h \in DOMAIN supp /\ ~(t < supp[h])
  THEN [x \in DOMAIN supp \ {h} |-> supp[x]]
  ELSE supp

\* ControlService.suppress_anomaly, mutated: an existing entry is only
\* ever extended
suppress_anomaly_keep_later(supp, h, t, duration_sec) ==
  [x \in DOMAIN supp \cup {h} |->
     IF x = h
     THEN (IF h \in DOMAIN supp THEN Max2(supp[h], t + duration_sec)
           ELSE t + duration_sec)
     ELSE supp[x]]

\* ControlService.suppress_anomaly at int(time.time()) = t: the cache it
\* leaves
suppress_anomaly(supp, h, t, duration_sec) ==
  [x \in DOMAIN supp \cup {h} |-> IF x = h THEN t + duration_sec ELSE supp[x]]

\* ControlService.delete_suppression: the cache it leaves
delete_suppression(supp, h) ==
  IF h \in DOMAIN supp THEN [x \in DOMAIN supp \ {h} |-> supp[x]] ELSE supp

\* ControlService.patch_anomaly, mutated: the in-memory set is extended
\* before the transaction is attempted
patch_anomaly_memory_first(table, patches, h, committed) ==
  IF committed
  THEN [db |-> [table EXCEPT ![h] = "active"],
        patch_registry |-> patches \cup {h}, raised |-> FALSE]
  ELSE [db |-> table, patch_registry |-> patches \cup {h}, raised |-> TRUE]

\* ControlService.patch_anomaly, mutated: a plain INSERT OR IGNORE, so an
\* existing row keeps its is_active
patch_anomaly_insert_or_ignore(table, patches, h, committed) ==
  IF committed
  THEN [db |-> [table EXCEPT ![h] = IF @ = "absent" THEN "active" ELSE @],
        patch_registry |-> patches \cup {h}, raised |-> FALSE]
  ELSE [db |-> table, patch_registry |-> patches, raised |-> TRUE]

\* ControlService.patch_anomaly: the table and the in-memory set it leaves.
\* The upsert runs in "with conn"; when opening the connection, the
\* statement or the commit raises (committed = FALSE) the transaction is
\* rolled back and the exception leaves the method before the set is touched
patch_anomaly(table, patches, h, committed) ==
  IF committed
  THEN [db |-> [table EXCEPT ![h] = "active"],
        patch_registry |-> patches \cup {h}, raised |-> FALSE]
  ELSE [db |-> table, patch_registry |-> patches, raised |-> TRUE]

\* ControlService.delete_patch: the table and the in-memory set it leaves
\* (the UPDATE touches no row when the fingerprint has none)
delete_patch(table, patches, h, committed) ==
  IF committed
  THEN [db |-> [table EXCEPT ![h] = IF @ = "absent" THEN "absent" ELSE "inactive"],
        patch_registry |-> patches \ {h}, raised |-> FALSE]
  ELSE [db |-> table, patch_registry |-> patches, raised |-> TRUE]

\* ControlService.get_all_rules, mutated: every cache entry is listed
get_all_rules_unfiltered(table, supp, t) ==
  [patches |-> {h \in DOMAIN table : table[h] = "active"},
   suppressions |-> {[rhythm_hash |-> h, expires_at |-> supp[h]] :
                       h \in DOMAIN supp}]

\* ControlService.get_all_rules at int(time.time()) = t: the active rows of
\* the table and the cache entries that expire after t
get_all_rules(table, supp, t) ==
  [patches |-> {h \in DOMAIN table : table[h] = "active"},
   suppressions |-> {[rhythm_hash |-> h, expires_at |-> supp[h]] :
                       h \in {x \in DOMAIN supp : supp[x] > t}}]

\* the fingerprints the app-level registry silences at time t
Silenced(patches, supp, t) ==
  {h \in Hashes : h \in patches \/ (h \in DOMAIN supp /\ t < supp[h])}

\* ------------------------------------------------------------------------
\* Fingerprinting (ingestion_service.py). A body is a sequence of
\* characters; a digest is kept as the tagged value it was computed from.
\* ------------------------------------------------------------------------
Digits == {"0", "1", "2", "3", "4", "5", "6", "7", "8", "9"}

\* [0-9a-f]
HexChars == Digits \cup {"a", "b", "c", "d", "e", "f"}

\* \w over the characters that occur in the bodies of the model
WordChars ==
  Digits \cup {"_"} \cup
  {"a", "b", "c", "d", "e", "f", "g", "h", "i", "j", "k", "l", "m",
   "n", "o", "p", "q", "r", "s", "t", "u", "v", "w", "x", "y", "z"}

IsWord(s, i) == i \in DOMAIN s /\ s[i] \in WordChars

\* \b between s[i-1] and s[i]
Boundary(s, i) == IsWord(s, i - 1) # IsWord(s, i)

\* length of the run of digits that starts at s[i]
RECURSIVE RunLen(_, _)
RunLen(s, i) ==
  IF i \in DOMAIN s /\ s[i] \in Digits THEN 1 + RunLen(s, i + 1) ELSE 0

\* length of the match at s[i] of
\* \b[0-9a-f]{8}-[0-9a-f]{4}-[0-9a-f]{4}-[0-9a-f]{4}-[0-9a-f]{12}\b, or 0
UuidAt(s, i) ==
  IF /\ i + 35 <= Len(s)
     /\ \A k \in 0..35 : IF k \in {8, 13, 18, 23} THEN s[i + k] = "-"
                         ELSE s[i + k] \in HexChars
     /\ Boundary(s, i)
     /\ Boundary(s, i + 36)
  THEN 36 ELSE 0

\* length of the match at s[i] of \b\d{1,3}\.\d{1,3}\.\d{1,3}\.\d{1,3}\b,
\* or 0: each run of digits is taken whole, since a "." or a \b must follow
Ipv4At(s, i) ==
  LET a == RunLen(s, i)
      b == RunLen(s, i + a + 1)
      c == RunLen(s, i + a + b + 2)
      d == RunLen(s, i + a + b + c + 3)
      Dot(j) == j \in DOMAIN s /\ s[j] = "."
  IN IF /\ Boundary(s, i)
        /\ a \in 1..3 /\ Dot(i + a)
        /\ b \in 1..3 /\ Dot(i + a + b + 1)
        /\ c \in 1..3 /\ Dot(i + a + b + c + 2)
        /\ d \in 1..3 /\ Boundary(s, i + a + b + c + d + 3)
     THEN a + b + c + d + 3 ELSE 0

\* length of the match at s[i] of \b\d+\b, or 0
DigitsAt(s, i) ==
  LET n == RunLen(s, i)
  IN IF n >= 1 /\ Boundary(s, i) /\ Boundary(s, i + n) THEN n ELSE 0

MatchLen(pattern, s, i) ==
  CASE pattern = "uuid" -> UuidAt(s, i)
    [] pattern = "ipv4" -> Ipv4At(s, i)
    [] pattern = "digits" -> DigitsAt(s, i)

\* re.sub(pattern, '*', s) from position i on: leftmost matches, left to right
RECURSIVE re_sub(_, _, _)
re_sub(pattern, s, i) ==
  IF i > Len(s) THEN <<>>
  ELSE LET n == MatchLen(pattern, s, i)
       IN IF n > 0 THEN <<"*">> \o re_sub(pattern, s, i + n)
          ELSE <<s[i]>> \o re_sub(pattern, s, i + 1)

\* IngestionService._get_template
_get_template(log_body) ==
  re_sub("digits", re_sub("ipv4", re_sub("uuid", log_body, 1), 1), 1)

\* hashlib.sha256(x).hexdigest()[:16], taken to be free of collisions
sha256_16(x) == <<"sha256", x>>

\* the embedding of a text under the fixed model
embed(text) == <<"embedding", text>>

\* IngestionService._get_rhythm_hash: attribute_keys is the sorted list of
\* the keys, which is determined by their set
_get_rhythm_hash(Body, Attributes) ==
  LET template == _get_template(Body)
      template_hash == sha256_16(template)
      structural_hash == sha256_16(DOMAIN Attributes)
      semantic_hash == sha256_16(embed(template))
  IN <<template_hash, structural_hash, semantic_hash>>

\* IngestionService.ingest_log_batch, flattened shape: the point prepared
\* for one record (full_log_json is the record)
PreparedPoint(log_record) ==
  LET attrs == log_record.Attributes
  IN [template |-> _get_template(log_record.Body),
      rhythm_hash |-> _get_rhythm_hash(log_record.Body, attrs),
      service |-> IF "service.name" \in DOMAIN attrs
                  THEN attrs["service.name"] ELSE "unknown",
      ts |-> log_record.TimeUnixNano \div 1000000000,
      severity |-> "INFO",
      body |-> log_record.Body,
      full_log_json |-> log_record]

\* the variable parts of the bodies: two numbers, two IPv4 literals, two UUIDs
VariableParts ==
  {[kind |-> "number", text |-> <<"3", "5">>],
   [kind |-> "number", text |-> <<"7">>],
   [kind |-> "ipv4", text |-> <<"1", "0", ".", "0", ".", "0", ".", "1">>],
   [kind |-> "ipv4", text |-> <<"1", "9", "2", ".", "1", "6", "8", ".", "1", ".", "2", "2">>],
   [kind |-> "uuid", text |-> <<"1", "2", "a", "b", "3", "4", "c", "d", "-", "a", "a", "a", "a", "-", "4", "b", "b", "b", "-", "8", "c", "c", "c", "-", "1", "2", "3", "4", "5", "6", "7", "8", "9", "0", "a", "b">>],
   [kind |-> "uuid", text |-> <<"0", "f", "0", "f", "0", "f", "0", "f", "-", "b", "b", "b", "b", "-", "4", "c", "c", "c", "-", "9", "d", "d", "d", "-", "b", "a", "0", "9", "8", "7", "6", "5", "4", "3", "2", "1">>]}

\* what follows the variable part: a separate word, or a unit attached to it
Suffixes == {<<" ", "x">>, <<"m", "s">>}

\* bodies "t <variable><suffix>", with the kind of their variable part; the
\* unit follows numbers only
Bodies ==
  UNION {{[text |-> <<"t", " ">> \o v.text \o x, shape |-> <<v.kind, x>>] :
            x \in {y \in Suffixes : v.kind = "number" \/ y = <<" ", "x">>}} :
           v \in VariableParts}

Services == {"api", "db"}

Severities == {"INFO", "ERROR"}

\* the attribute maps: service.name alone, or with one more key
AttributeMaps ==
  {[k \in {"service.name"} |-> svc] : svc \in Services}
    \cup {[k \in {"service.name", "http.status"} |->
             IF k = "service.name" THEN svc ELSE "200"] : svc \in Services}

\* OTelLogRecord values posted to /ingest/stream; shape is not a field of
\* the record, it names how the body was built
LogRecords ==
  {[TimeUnixNano |-> sec * 1000000000, SeverityText |-> sev, Body |-> b.text,
    Attributes |-> a, shape |-> b.shape] :
     sec \in {0, 1}, sev \in Severities, b \in Bodies, a \in AttributeMaps}

\* dict.get(key, default)
Get(d, key, default) == IF key \in DOMAIN d THEN d[key] ELSE default

\* list(a["value"].values())[0]: the value of a one-entry dict
FirstValue(d) == d[CHOOSE k \in DOMAIN d : TRUE]

\* {a["key"]: list(a["value"].values())[0] for a in attributes}: a later
\* entry of the same key replaces an earlier one
AttributeDict(attributes) ==
  [k \in {attributes[i].key : i \in DOMAIN attributes} |->
     FirstValue(attributes[MaxOf({i \in DOMAIN attributes : attributes[i].key = k})].value)]

\* lines 59-65: a subscript of the nested branch raises (KeyError,
\* IndexError, or TypeError on a model object without Body)
NestedRaises(raw) ==
  \/ "resourceLogs" \notin DOMAIN raw
  \/ raw.resourceLogs = <<>>
  \/ "scopeLogs" \notin DOMAIN raw.resourceLogs[1]
  \/ raw.resourceLogs[1].scopeLogs = <<>>
  \/ "logRecords" \notin DOMAIN raw.resourceLogs[1].scopeLogs[1]
  \/ raw.resourceLogs[1].scopeLogs[1].logRecords = <<>>
  \/ "timeUnixNano" \notin DOMAIN raw.resourceLogs[1].scopeLogs[1].logRecords[1]

\* lines 59-84: the point prepared for a record of the nested shape
NestedPoint(raw) ==
  LET rl == raw.resourceLogs[1]
      rec == rl.scopeLogs[1].logRecords[1]
      rattrs == AttributeDict(Get(Get(rl, "resource", EmptyMap), "attributes", <<>>))
      body == Get(Get(rec, "body", EmptyMap), "stringValue", <<>>)
      attrs == AttributeDict(Get(rec, "attributes", <<>>))
  IN [template |-> _get_template(body),
      rhythm_hash |-> _get_rhythm_hash(body, attrs),
      service |-> Get(rattrs, "service.name", "unknown"),
      ts |-> rec.timeUnixNano \div 1000000000,
      severity |-> "INFO",
      body |-> body,
      full_log_json |-> raw]

\* IngestionService.ingest_log_batch lines 47-84: the loop over the records;
\* nothing catches what the body of the loop raises
RECURSIVE points_to_prepare(_)
points_to_prepare(logs) ==
  IF logs = <<>> THEN [raised |-> FALSE, points |-> <<>>]
  ELSE LET front == points_to_prepare(SubSeq(logs, 1, Len(logs) - 1))
           raw == logs[Len(logs)]
       IN IF front.raised THEN front
          ELSE IF "Body" \in DOMAIN raw
          THEN [front EXCEPT !.points = Append(@, PreparedPoint(raw))]
          ELSE IF NestedRaises(raw) THEN [raised |-> TRUE, points |-> <<>>]
          ELSE [front EXCEPT !.points = Append(@, NestedPoint(raw))]

\* QdrantService.embed_and_upsert_tier1: the stored points and the count
embed_and_upsert_tier1(t1, points) ==
  LET stored == [i \in DOMAIN points |->
                   [rhythm_hash |-> points[i].rhythm_hash, ts |-> points[i].ts]]
  IN [tier1 |-> t1 (+) [p \in SeqRange(stored) |->
                          Cardinality({i \in DOMAIN stored : stored[i] = p})],
      count |-> Len(points)]

\* a record of the flattened shape
FlatRecord(sec, service, text) ==
  [TimeUnixNano |-> sec * 1000000000, SeverityText |-> "INFO", Body |-> text,
   Attributes |-> [k \in {"service.name"} |-> service]]

\* a record of the nested OTel shape
NestedRecord(sec, service, text) ==
  [resourceLogs |->
     <<[resource |-> [attributes |-> <<[key |-> "service.name",
                                        value |-> [stringValue |-> service]]>>],
        scopeLogs |->
          <<[logRecords |-> <<[timeUnixNano |-> sec * 1000000000,
                               body |-> [stringValue |-> text],
                               attributes |-> <<>>]>>]>>]>>]

\* the records of a posted batch: two well-formed ones of either shape, and
\* malformed ones: a flattened record without Body, the nested record one
\* level too deep or too shallow, without log records, without timestamp
BatchRecords ==
  {FlatRecord(1, "api", <<"t", " ", "7">>),
   NestedRecord(1, "db", <<"u", " ", "8">>),
   [TimeUnixNano |-> 1000000000, SeverityText |-> "INFO",
    Attributes |-> [k \in {"service.name"} |-> "api"]],
   [scopeLogs |-> NestedRecord(1, "db", <<"u">>).resourceLogs[1].scopeLogs],
   [resourceLogs |-> <<[scopeLogs |-> <<[logRecords |-> <<>>]>>]>>],
   [resourceLogs |-> <<[scopeLogs |-> <<[logRecords |->
                                           <<[body |-> [stringValue |-> <<"u">>]]>>]>>]>>]}

\* a record that has every field its shape requires: Body and TimeUnixNano
\* of OTelLogRecord, or resourceLogs[0].scopeLogs[0].logRecords[0] with
\* timeUnixNano
WellFormed(raw) ==
  IF "Body" \in DOMAIN raw THEN "TimeUnixNano" \in DOMAIN raw
  ELSE ~NestedRaises(raw)

\* the point a well-formed record yields
PointOf(raw) == IF "Body" \in DOMAIN raw THEN PreparedPoint(raw) ELSE NestedPoint(raw)

\* the points of all records, computed once
PreparedPoints == [r \in LogRecords |-> PreparedPoint(r)]

\* ------------------------------------------------------------------------
\* Vector-store gateway (qdrant_service.py)
\* ------------------------------------------------------------------------
\* QdrantService._get_daily_collection_name: the name is the prefix and the
\* calendar day of ts
_get_daily_collection_name(prefix, ts) ==
  [prefix |-> prefix, day |-> ts \div SECONDS_PER_DAY]

TIER_2_COLLECTION_PREFIX == "via_forensic_index"

\* QdrantService.get_points_from_tier1: the results a scroll can return
get_points_from_tier1(t1, start_ts, end_ts) ==
  LET m == PointsBetween(t1, start_ts, end_ts)
  IN IF BagCardinality(m) <= SCROLL_LIMIT THEN {m}
     ELSE {b \in SubBag(m) : BagCardinality(b) = SCROLL_LIMIT}

\* get_historical_baseline: the most recent `size` points with ts < before
get_historical_baseline(t1, before, size) ==
  LET m == PointsBefore(t1, before)
  IN IF BagCardinality(m) <= size THEN {m}
     ELSE {b \in SubBag(m) :
             /\ BagCardinality(b) = size
             /\ \A p \in DOMAIN b, q \in DOMAIN m :
                  (CopiesIn(q, b) < CopiesIn(q, m)) => q.ts <= p.ts}

\* QdrantService.ingest_to_tier2, mutated: the whole batch goes to the
\* partition of its first event
ingest_to_tier2_first_day(t2, events) ==
  t2 \cup {[collection |-> _get_daily_collection_name(
                               TIER_2_COLLECTION_PREFIX, events[1].start_ts),
            id |-> Cardinality(t2) + i,
            payload |-> events[i]] : i \in DOMAIN events}

\* QdrantService.ingest_to_tier2: every event is upserted, with a fresh id,
\* into the daily collection named for its own payload.start_ts
ingest_to_tier2(t2, events) ==
  t2 \cup {[collection |-> _get_daily_collection_name(
                               TIER_2_COLLECTION_PREFIX, events[i].start_ts),
            id |-> Cardinality(t2) + i,
            payload |-> events[i]] : i \in DOMAIN events}

\* ------------------------------------------------------------------------
\* Promotion Service (promotion_service.py)
\* ------------------------------------------------------------------------
\* the hashes of a list of anomalies in order of first occurrence (the key
\* order of the `clusters` dict)
RECURSIVE ClusterKeys(_)
ClusterKeys(anomalies) ==
  IF anomalies = <<>> THEN <<>>
  ELSE LET front == ClusterKeys(SubSeq(anomalies, 1, Len(anomalies) - 1))
           h == anomalies[Len(anomalies)].rhythm_hash
       IN IF h \in SeqRange(front) THEN front ELSE Append(front, h)

\* one EventCluster payload for the anomalies `logs` of one rhythm_hash
EventPayload(rhash, logs) ==
  LET start_ts == MinOf({logs[i].ts : i \in DOMAIN logs})
      end_ts == MaxOf({logs[i].ts : i \in DOMAIN logs})
      \* sorted(logs, key=ts)[0]: the first of the items with the least ts
      first == logs[MinOf({i \in DOMAIN logs : logs[i].ts = start_ts})]
  IN [entity_type |-> "event_cluster",
      rhythm_hash |-> rhash,
      start_ts |-> start_ts,
      end_ts |-> end_ts,
      count |-> Len(logs),
      anomaly_type |-> first.anomaly_type]

\* PromotionService.promote_anomalies, mutated: the loop over the clusters
\* stops after the first one
promote_anomalies_first_only(anomalies) ==
  LET keys == ClusterKeys(anomalies)
  IN [k \in {1} |->
        EventPayload(keys[k],
                     SelectSeq(anomalies, LAMBDA a : a.rhythm_hash = keys[k]))]

\* PromotionService.promote_anomalies: the events handed to ingest_to_tier2
promote_anomalies(anomalies) ==
  LET keys == ClusterKeys(anomalies)
  IN [k \in DOMAIN keys |->
        EventPayload(keys[k],
                     SelectSeq(anomalies, LAMBDA a : a.rhythm_hash = keys[k]))]

\* ------------------------------------------------------------------------
\* Rhythm Analyzer (rhythm_analysis_service.py)
\* ------------------------------------------------------------------------
\* RhythmAnalysisService._calculate_historical_stats, mutated: the counts
\* are not scaled to the current window
_calculate_historical_stats_unscaled(points, current_window_sec) ==
  IF BagCardinality(points) < 2 THEN EmptyMap
  ELSE [h \in HashesOf(points) |->
          [num |-> CountOf(points, h), den |-> 1, exact |-> TRUE]]

\* RhythmAnalysisService._calculate_historical_stats: for every hash of the
\* sample its normalized mean as the fraction num / den; {} for a sample of
\* fewer than two points. The code computes the mean in floating point as
\* total_count * (current_window_sec / historical_duration_sec): `exact`
\* tells whether the scaling factor is representable, so that the mean and
\* the threshold carry no rounding error.
_calculate_historical_stats(points, current_window_sec) ==
  IF BagCardinality(points) < 2 THEN EmptyMap
  ELSE LET newest_ts == MaxOf({p.ts : p \in DOMAIN points})
           oldest_ts == MinOf({p.ts : p \in DOMAIN points})
           historical_duration_sec == Max2(1, newest_ts - oldest_ts)
       IN [h \in HashesOf(points) |->
             [num |-> CountOf(points, h) * current_window_sec,
              den |-> historical_duration_sec,
              exact |-> ExactQuotient(current_window_sec, historical_duration_sec)]]

\* r_count > mean + std_dev * FREQUENCY_STD_DEV_FACTOR over the rationals,
\* where std_dev = max(1.5, sqrt(mean)) and mean = num / den
AboveThreshold(r_count, stat) ==
  IF 4 * stat.num <= STD_DEV_FLOOR_X2 * STD_DEV_FLOOR_X2 * stat.den
  THEN \* sqrt(mean) <= 1.5: threshold = mean + 2.5 * 1.5
       4 * r_count * stat.den >
         4 * stat.num + FREQUENCY_STD_DEV_FACTOR_X2 * STD_DEV_FLOOR_X2 * stat.den
  ELSE \* threshold = mean + 2.5 * sqrt(mean)
       /\ r_count * stat.den > stat.num
       /\ 4 * (r_count * stat.den - stat.num) * (r_count * stat.den - stat.num) >
            FREQUENCY_STD_DEV_FACTOR_X2 * FREQUENCY_STD_DEV_FACTOR_X2
              * stat.num * stat.den

\* r_count = mean + std_dev * FREQUENCY_STD_DEV_FACTOR over the rationals
AtThreshold(r_count, stat) ==
  IF 4 * stat.num <= STD_DEV_FLOOR_X2 * STD_DEV_FLOOR_X2 * stat.den
  THEN 4 * r_count * stat.den =
         4 * stat.num + FREQUENCY_STD_DEV_FACTOR_X2 * STD_DEV_FLOOR_X2 * stat.den
  ELSE /\ r_count * stat.den > stat.num
       /\ 4 * (r_count * stat.den - stat.num) * (r_count * stat.den - stat.num) =
            FREQUENCY_STD_DEV_FACTOR_X2 * FREQUENCY_STD_DEV_FACTOR_X2
              * stat.num * stat.den

\* the comparison of line 100 can go either way: r_count equals the threshold
\* and the float threshold carries a rounding error
RoundingDecides(r_count, stat) == ~stat.exact /\ AtThreshold(r_count, stat)

\* line 100, r_count > threshold, as the float comparison decides it: where
\* r_count differs from the threshold the rounding error (about 1e-16 of the
\* threshold) does not change the result; at equality with an inexact
\* threshold the result is TRUE iff the threshold was rounded below r_count
ExceedsThreshold(r_count, stat, rounded_below) ==
  \/ AboveThreshold(r_count, stat)
  \/ RoundingDecides(r_count, stat) /\ rounded_below

\* line 92 mutated: a single occurrence of an unknown hash is a novelty
NoveltyRuleAny(r_count) == r_count >= 1

\* line 92: r_count >= NOVELTY_MIN_COUNT
NoveltyRule(r_count) == r_count >= NOVELTY_MIN_COUNT

\* line 100
FrequencyRule(r_count, stat, rounded_below) ==
  ExceedsThreshold(r_count, stat, rounded_below) /\ r_count >= FREQUENCY_MIN_COUNT

\* one iteration of the loop of lines 85-103 for the hash h, mutated: the
\* registry is not consulted
RhythmIterationNoGate(acc, h, recent, by_hash, stats, patches, t, below) ==
  LET r_count == CountOf(recent, h)
      payload == [rhythm_hash |-> h, ts |-> by_hash[h], seen |-> r_count]
  IN IF h \notin DOMAIN stats
     THEN IF NoveltyRule(r_count)
          THEN [acc EXCEPT !.novel = Append(@, payload @@ [anomaly_type |-> "novelty"])]
          ELSE acc
     ELSE IF FrequencyRule(r_count, stats[h], h \in below)
          THEN [acc EXCEPT !.freq = Append(@, payload @@ [anomaly_type |-> "frequency"])]
          ELSE acc

\* one iteration of the loop, mutated: a frequency anomaly is appended to
\* the novelties as well
RhythmIterationBothLists(acc, h, recent, by_hash, stats, patches, t, below) ==
  LET r_count == CountOf(recent, h)
      payload == [rhythm_hash |-> h, ts |-> by_hash[h], seen |-> r_count]
      checked == [acc EXCEPT !.supp = cache_after_check(patches, acc.supp, h, t)]
  IN IF is_suppressed_or_patched(patches, acc.supp, h, t)
     THEN [checked EXCEPT !.skipped = @ \cup {h}]
     ELSE IF h \notin DOMAIN stats
     THEN IF NoveltyRule(r_count)
          THEN [checked EXCEPT !.novel = Append(@, payload @@ [anomaly_type |-> "novelty"])]
          ELSE checked
     ELSE IF FrequencyRule(r_count, stats[h], h \in below)
          THEN [checked EXCEPT
                  !.novel = Append(@, payload @@ [anomaly_type |-> "novelty"]),
                  !.freq = Append(@, payload @@ [anomaly_type |-> "frequency"])]
          ELSE checked

\* one iteration of the loop of lines 85-103 for the hash h
RhythmIteration(acc, h, recent, by_hash, stats, patches, t, below) ==
  LET r_count == CountOf(recent, h)
      payload == [rhythm_hash |-> h, ts |-> by_hash[h], seen |-> r_count]
      checked == [acc EXCEPT !.supp = cache_after_check(patches, acc.supp, h, t)]
  IN IF is_suppressed_or_patched(patches, acc.supp, h, t)
     THEN [checked EXCEPT !.skipped = @ \cup {h}]
     ELSE IF h \notin DOMAIN stats
     THEN IF NoveltyRule(r_count)
          THEN [checked EXCEPT !.novel = Append(@, payload @@ [anomaly_type |-> "novelty"])]
          ELSE checked
     ELSE IF FrequencyRule(r_count, stats[h], h \in below)
          THEN [checked EXCEPT !.freq = Append(@, payload @@ [anomaly_type |-> "frequency"])]
          ELSE checked

\* the loop of lines 85-103 over the hashes of the recent window in the
\* order `order`
\* `below`: the hashes whose float threshold was rounded below its value
RECURSIVE RhythmLoop(_, _, _, _, _, _, _, _)
RhythmLoop(order, acc, recent, by_hash, stats, patches, t, below) ==
  IF order = <<>> THEN acc
  ELSE RhythmLoop(Tail(order),
                  RhythmIteration(acc, Head(order), recent, by_hash, stats,
                                  patches, t, below),
                  recent, by_hash, stats, patches, t, below)

\* the hashes of the recent window for which rounding decides line 100
RoundingDecided(recent, stats) ==
  {h \in HashesOf(recent) \cap DOMAIN stats :
     RoundingDecides(CountOf(recent, h), stats[h])}

\* line 105 mutated: frequency anomalies are not handed to promotion
AllAnomaliesNovelOnly(novel_anomalies, frequency_anomalies) == novel_anomalies

\* line 105
AllAnomalies(novel_anomalies, frequency_anomalies) ==
  novel_anomalies \o frequency_anomalies

\* ------------------------------------------------------------------------
\* The analyzer behind POST /analysis/tier1/rhythm_anomalies
\* (analysis_service.py)
\* ------------------------------------------------------------------------
\* lines 106-109: is_significant_spike, with
\* historical_avg_count = historical_count / (24 * 3600 / window_sec)
is_significant_spike(r_count, historical_count, window_sec) ==
  /\ r_count > MIN_COUNT_FOR_SPIKE
  /\ r_count * HISTORICAL_WINDOW_SEC > historical_count * window_sec * SPIKE_MULTIPLIER

\* one iteration of the loop of lines 86-118 for the hash h
AnalysisIteration(acc, h, recent, by_hash, historical, patches, t, window_sec) ==
  LET r_count == CountOf(recent, h)
      payload == [rhythm_hash |-> h, ts |-> by_hash[h], seen |-> r_count]
      checked == [acc EXCEPT !.supp = cache_after_check(patches, acc.supp, h, t)]
  IN IF is_suppressed_or_patched(patches, acc.supp, h, t)
     THEN [checked EXCEPT !.skipped = @ \cup {h}]
     ELSE IF h \notin HashesOf(historical)
     THEN [checked EXCEPT !.novel = Append(@, payload @@ [anomaly_type |-> "novelty"])]
     ELSE IF is_significant_spike(r_count, CountOf(historical, h), window_sec)
          THEN [checked EXCEPT !.freq = Append(@, payload @@ [anomaly_type |-> "frequency"])]
          ELSE checked

RECURSIVE AnalysisLoop(_, _, _, _, _, _, _, _)
AnalysisLoop(order, acc, recent, by_hash, historical, patches, t, window_sec) ==
  IF order = <<>> THEN acc
  ELSE AnalysisLoop(Tail(order),
                    AnalysisIteration(acc, Head(order), recent, by_hash,
                                      historical, patches, t, window_sec),
                    recent, by_hash, historical, patches, t, window_sec)

\* AnalysisService._promote_to_tier2: the events handed to ingest_to_tier2
\* (its payload carries no anomaly_type)
_promote_to_tier2(anomalies) ==
  LET keys == ClusterKeys(anomalies)
  IN [k \in DOMAIN keys |->
        [EventPayload(keys[k],
                      SelectSeq(anomalies, LAMBDA a : a.rhythm_hash = keys[k]))
           EXCEPT !.anomaly_type = "absent"]]

\* ------------------------------------------------------------------------
\* State
\* ------------------------------------------------------------------------
NoAcc(supp) == [novel |-> <<>>, freq |-> <<>>, supp |-> supp, skipped |-> {}]

WorkerIdle ==
  [pc |-> "start", t |-> 0, recent |-> EmptyBag, known |-> {},
   novel |-> <<>>, freq |-> <<>>, skipped |-> {}, all_anomalies |-> <<>>,
   written |-> {}, wake |-> 0, error |-> FALSE, prev_t |-> 0, prev_recent |-> EmptyBag,
   prev_error |-> FALSE]

HttpIdle ==
  [pc |-> "idle", t |-> 0, window_sec |-> 0, recent |-> EmptyBag,
   historical |-> EmptyBag, got |-> {}, patches |-> {}, supp |-> EmptyMap,
   known |-> {}, novel |-> <<>>, freq |-> <<>>, skipped |-> {}]

Point(h, ts) == [rhythm_hash |-> h, ts |-> ts]

\* no cluster listing has been built yet
NoListing ==
  [service |-> "none", start_ts |-> 0, end_ts |-> 0, text_filter |-> "",
   result |-> <<>>, silenced |-> {}, collections |-> {}, failed |-> {},
   anchors |-> {}, score_kind |-> "", hits |-> <<>>, ts |-> 0, name |-> "",
   names |-> <<>>]

\* nothing has been ingested yet
NoPoints == <<>>

\* no request has reached /control yet
NoRules == [patches |-> {}, suppressions |-> {}]

NoCall ==
  [op |-> "none", rhythm_hash |-> "", duration_sec |-> 0, t |-> 0, frac |-> 0,
   prev_expiry |-> 0, prev_row |-> "", prev_patches |-> {}, status |-> "",
   rules |-> NoRules, batch |-> <<>>, count |-> 0, stored |-> <<>>,
   prev_supp |-> EmptyMap]

\* what earlier ingestion has left in Tier-1 when the model starts: nothing,
\* a single old point, or two old points 300 s apart
Baselines ==
  {EmptyBag,
   SetToBag({Point("F", ClockStart - 400)}),
   SetToBag({Point("F", ClockStart - 700), Point("G", ClockStart - 400)})}

\* occurrences of G in the historical sample and the seconds it spans
HistCounts == {2, 4, 5, 9, 12, 49}

\* spans for which no count of HistCounts puts the threshold on an integer
\* unless the scaling factor 60 / span is a binary fraction
HistSpans == {60, 240, 3600}

\* a span whose scaling factor 60 / 735 = 4 / 49 is rounded; 49 occurrences
\* put the threshold on the integer 9
RoundedSpans == {735}

\* earlier ingestion has left c points of G that span d seconds and end
\* before the recent window; r points of G arrived in the last second
FrequencyScenario(c, d, r) ==
  (SetToBag({Point("G", ClockStart - 2 * ANALYSIS_INTERVAL_SEC - d)})
     (+) [p \in {Point("G", ClockStart - 2 * ANALYSIS_INTERVAL_SEC)} |-> c - 1])
     (+) [p \in {Point("G", ClockStart)} |-> r]

\* a known fingerprint with a history, nothing silenced
InitRhythm ==
  /\ now = ClockStart
  /\ ops = 0
  /\ tier1 \in {FrequencyScenario(c, d, r) :
                  c \in HistCounts, d \in HistSpans, r \in 1..MaxRecent}
  /\ tier2 = {}
  /\ db = [h \in Hashes |-> "absent"]
  /\ patch_registry = _load_patches(db)
  /\ suppression_cache = EmptyMap
  /\ worker = WorkerIdle
  /\ http = HttpIdle
  /\ thr = [worker |-> {}, http |-> {}]
  /\ listing = NoListing
  /\ call = NoCall
  /\ ingested = NoPoints

\* as InitRhythm, with a history whose scaling factor is rounded
InitRounding ==
  /\ now = ClockStart
  /\ ops = 0
  /\ tier1 \in {FrequencyScenario(c, d, r) :
                  c \in HistCounts, d \in RoundedSpans, r \in 1..MaxRecent}
  /\ tier2 = {}
  /\ db = [h \in Hashes |-> "absent"]
  /\ patch_registry = _load_patches(db)
  /\ suppression_cache = EmptyMap
  /\ worker = WorkerIdle
  /\ http = HttpIdle
  /\ thr = [worker |-> {}, http |-> {}]
  /\ listing = NoListing
  /\ call = NoCall
  /\ ingested = NoPoints

\* an empty patch table, nothing loaded, no suppression
Init ==
  /\ now = ClockStart
  /\ ops = 0
  /\ tier1 \in Baselines
  /\ tier2 = {}
  /\ db = [h \in Hashes |-> "absent"]
  /\ patch_registry = _load_patches(db)
  /\ suppression_cache = EmptyMap
  /\ worker = WorkerIdle
  /\ http = HttpIdle
  /\ thr = [worker |-> {}, http |-> {}]
  /\ listing = NoListing
  /\ call = NoCall
  /\ ingested = NoPoints

\* history variable: the hashes the app registry has silenced in every state
\* of an invocation from its entry up to its classification
Track ==
  LET silenced == Silenced(patch_registry', suppression_cache', now')
      wpre == {"await_recent", "await_hist"}
      hpre == {"await_reads"}
  IN thr' = [worker |->
               IF worker'.pc \in wpre
               THEN (IF worker.pc \in wpre THEN thr.worker ELSE Hashes) \cap silenced
               ELSE thr.worker,
             http |->
               IF http'.pc \in hpre
               THEN (IF http.pc \in hpre THEN thr.http ELSE Hashes) \cap silenced
               ELSE thr.http]

\* ------------------------------------------------------------------------
\* Environment: the clock and the ingestion path
\* ------------------------------------------------------------------------
Tick ==
  /\ ops < MaxOps
  /\ \E d \in TickSteps : now' = now + d
  /\ ops' = ops + 1
  /\ UNCHANGED <<call, ingested, tier1, tier2, db, patch_registry, suppression_cache,
                 worker, http, listing>>
  /\ Track

\* IngestionService.ingest_log_batch / QdrantService.embed_and_upsert_tier1:
\* a batch of n records of one fingerprint, stamped with the current second
Ingest ==
  /\ ops < MaxOps
  /\ \E h \in Hashes, n \in BatchSizes :
       tier1' = tier1 (+) [p \in {Point(h, now)} |-> n]
  /\ ops' = ops + 1
  /\ UNCHANGED <<call, ingested, now, tier2, db, patch_registry, suppression_cache,
                 worker, http, listing>>
  /\ Track

\* ------------------------------------------------------------------------
\* Control endpoints (endpoints/control.py on app.state.control_service).
\* A request that changes nothing is a stuttering step.
\* ------------------------------------------------------------------------
\* POST /control/suppress
Suppress ==
  /\ ops < MaxOps
  /\ \E h \in Hashes, d \in Durations :
       suppression_cache' = suppress_anomaly(suppression_cache, h, now, d)
  /\ ops' = ops + 1
  /\ UNCHANGED <<call, ingested, now, tier1, tier2, db, patch_registry, worker, http, listing>>
  /\ Track

\* POST /control/patch: ControlService.patch_anomaly
Patch ==
  /\ ops < MaxOps
  /\ \E h \in Hashes :
       /\ db[h] # "active" \/ h \notin patch_registry
       /\ db' = patch_anomaly(db, patch_registry, h, TRUE).db
       /\ patch_registry' = patch_anomaly(db, patch_registry, h, TRUE).patch_registry
  /\ ops' = ops + 1
  /\ UNCHANGED <<call, ingested, now, tier1, tier2, suppression_cache, worker, http, listing>>
  /\ Track

\* DELETE /control/patch/{rhythm_hash}: ControlService.delete_patch
DeletePatch ==
  /\ ops < MaxOps
  /\ \E h \in Hashes :
       /\ db[h] = "active" \/ h \in patch_registry
       /\ db' = delete_patch(db, patch_registry, h, TRUE).db
       /\ patch_registry' = delete_patch(db, patch_registry, h, TRUE).patch_registry
  /\ ops' = ops + 1
  /\ UNCHANGED <<call, ingested, now, tier1, tier2, suppression_cache, worker, http, listing>>
  /\ Track

\* DELETE /control/suppress/{rhythm_hash}: ControlService.delete_suppression
DeleteSuppression ==
  /\ ops < MaxOps
  /\ \E h \in DOMAIN suppression_cache :
       suppression_cache' = delete_suppression(suppression_cache, h)
  /\ ops' = ops + 1
  /\ UNCHANGED <<call, ingested, now, tier1, tier2, db, patch_registry, worker, http, listing>>
  /\ Track

\* ------------------------------------------------------------------------
\* The periodic worker (worker.py) running
\* RhythmAnalysisService.find_rhythm_anomalies(ANALYSIS_INTERVAL_SEC)
\* ------------------------------------------------------------------------
\* lines 67-70: now is read and the Tier-1 read is awaited
WorkerEnter ==
  /\ worker.pc = "start"
  /\ worker' = [WorkerIdle EXCEPT !.pc = "await_recent", !.t = now,
                                  !.prev_t = worker.t, !.prev_recent = worker.recent,
                                  !.prev_error = worker.error]
  /\ UNCHANGED <<call, ingested, now, ops, tier1, tier2, db, patch_registry,
                 suppression_cache, http, listing>>
  /\ Track

\* lines 70-74: the recent window arrives; an empty one returns at once
WorkerRecentRead ==
  /\ worker.pc = "await_recent"
  /\ \E r \in get_points_from_tier1(tier1, worker.t - ANALYSIS_INTERVAL_SEC, worker.t) :
       worker' = IF r = EmptyBag
                 THEN [worker EXCEPT !.pc = "sleep",
                                     !.wake = now + ANALYSIS_INTERVAL_SEC]
                 ELSE [worker EXCEPT !.pc = "await_hist", !.recent = r]
  /\ UNCHANGED <<call, ingested, now, ops, tier1, tier2, db, patch_registry,
                 suppression_cache, http, listing>>
  /\ Track

\* lines 74-107: the baseline arrives, the anomalies are classified and, if
\* there are any, promotion is awaited
WorkerClassify ==
  /\ worker.pc = "await_hist"
  /\ \E hist \in get_historical_baseline(tier1, worker.t - ANALYSIS_INTERVAL_SEC,
                                         HISTORICAL_SAMPLE_SIZE),
        order \in Orders(HashesOf(worker.recent)),
        by_hash \in [HashesOf(worker.recent) -> {p.ts : p \in DOMAIN worker.recent}] :
       /\ \A h \in HashesOf(worker.recent) : by_hash[h] \in TimesOf(worker.recent, h)
       /\ LET stats == _calculate_historical_stats(hist, ANALYSIS_INTERVAL_SEC)
          IN \E below \in SUBSET RoundingDecided(worker.recent, stats) :
             LET acc == RhythmLoop(order, NoAcc(suppression_cache), worker.recent,
                                   by_hash, stats, patch_registry, now, below)
                 all == AllAnomalies(acc.novel, acc.freq)
             IN
             /\ suppression_cache' = acc.supp
             /\ worker' = [worker EXCEPT
                             !.known = DOMAIN stats,
                             !.novel = acc.novel,
                             !.freq = acc.freq,
                             !.skipped = acc.skipped,
                             !.all_anomalies = all,
                             !.pc = IF all # <<>> THEN "await_promote" ELSE "sleep",
                             !.wake = IF all # <<>> THEN @
                                      ELSE now + ANALYSIS_INTERVAL_SEC]
  /\ UNCHANGED <<call, ingested, now, ops, tier1, tier2, db, patch_registry, http, listing>>
  /\ Track

\* line 107: PromotionService.promote_anomalies writes the clusters; the
\* worker logs the counts and sleeps one interval
WorkerPromote ==
  /\ worker.pc = "await_promote"
  /\ tier2' = ingest_to_tier2(tier2, promote_anomalies(worker.all_anomalies))
  /\ worker' = [worker EXCEPT !.pc = "sleep",
                              !.written = tier2' \ tier2,
                              !.wake = now + ANALYSIS_INTERVAL_SEC]
  /\ UNCHANGED <<call, ingested, now, ops, tier1, db, patch_registry, suppression_cache,
                 http, listing>>
  /\ Track

\* asyncio.sleep(ANALYSIS_INTERVAL_SEC) is over
WorkerWake ==
  /\ worker.pc = "sleep"
  /\ now >= worker.wake
  /\ worker' = [worker EXCEPT !.pc = "start"]
  /\ UNCHANGED <<call, ingested, now, ops, tier1, tier2, db, patch_registry,
                 suppression_cache, http, listing>>
  /\ Track

\* worker.py without the try of line 19: the exception ends the coroutine
WorkerFail_unhandled ==
  /\ worker.pc \in {"await_recent", "await_hist", "await_promote"}
  /\ worker' = [worker EXCEPT !.pc = "done", !.error = TRUE]
  /\ UNCHANGED <<call, ingested, now, ops, tier1, tier2, db, patch_registry,
                 suppression_cache, http, listing>>
  /\ Track

\* worker.py lines 32-36: an awaited call of the analysis raises; the worker
\* logs the error and sleeps one interval
WorkerFail ==
  /\ worker.pc \in {"await_recent", "await_hist", "await_promote"}
  /\ worker' = [worker EXCEPT !.pc = "sleep", !.error = TRUE,
                              !.wake = now + ANALYSIS_INTERVAL_SEC]
  /\ UNCHANGED <<call, ingested, now, ops, tier1, tier2, db, patch_registry,
                 suppression_cache, http, listing>>
  /\ Track

\* worker.py line 36: the interval of asyncio.sleep elapses
WorkerSleep ==
  /\ worker.pc = "sleep"
  /\ now < worker.wake
  /\ worker.wake <= ClockStart + MaxIntervals * ANALYSIS_INTERVAL_SEC
  /\ now' = worker.wake
  /\ UNCHANGED <<call, ingested, ops, tier1, tier2, db, patch_registry,
                 suppression_cache, worker, http, listing>>
  /\ Track

\* ------------------------------------------------------------------------
\* POST /analysis/tier1/rhythm_anomalies (endpoints/analysis.py) running
\* AnalysisService.find_rhythm_anomalies(query.window_sec)
\* ------------------------------------------------------------------------
\* get_control_service() builds a new ControlService for the request: its
\* patches are loaded from the table, its suppression cache is empty
HttpEnter ==
  /\ http.pc = "idle"
  /\ ops < MaxOps
  /\ \E w \in Windows :
       http' = [HttpIdle EXCEPT !.pc = "await_reads", !.t = now,
                                !.window_sec = w,
                                !.patches = _load_patches(db)]
  /\ ops' = ops + 1
  /\ UNCHANGED <<call, ingested, now, tier1, tier2, db, patch_registry, suppression_cache,
                 worker, listing>>
  /\ Track

\* the two reads of asyncio.gather complete in either order
HttpRecentRead ==
  /\ http.pc = "await_reads"
  /\ "recent" \notin http.got
  /\ \E r \in get_points_from_tier1(tier1, http.t - http.window_sec, http.t) :
       http' = [http EXCEPT !.recent = r, !.got = @ \cup {"recent"}]
  /\ UNCHANGED <<call, ingested, now, ops, tier1, tier2, db, patch_registry,
                 suppression_cache, worker, listing>>
  /\ Track

HttpHistoricalRead ==
  /\ http.pc = "await_reads"
  /\ "historical" \notin http.got
  /\ \E r \in get_points_from_tier1(tier1,
                 http.t - http.window_sec - HISTORICAL_WINDOW_SEC,
                 http.t - http.window_sec) :
       http' = [http EXCEPT !.historical = r, !.got = @ \cup {"historical"}]
  /\ UNCHANGED <<call, ingested, now, ops, tier1, tier2, db, patch_registry,
                 suppression_cache, worker, listing>>
  /\ Track

\* lines 70-126: classification, synchronous promotion and return
HttpClassify ==
  /\ http.pc = "await_reads"
  /\ http.got = {"recent", "historical"}
  /\ \E order \in Orders(HashesOf(http.recent)),
        by_hash \in [HashesOf(http.recent) -> {p.ts : p \in DOMAIN http.recent}] :
       /\ \A h \in HashesOf(http.recent) : by_hash[h] \in TimesOf(http.recent, h)
       /\ LET acc == AnalysisLoop(order, NoAcc(http.supp), http.recent, by_hash,
                                  http.historical, http.patches, now,
                                  http.window_sec)
              all == acc.novel \o acc.freq
          IN /\ http' = [http EXCEPT !.pc = "idle",
                                     !.known = HashesOf(http.historical),
                                     !.novel = acc.novel,
                                     !.freq = acc.freq,
                                     !.skipped = acc.skipped,
                                     !.supp = acc.supp]
             /\ tier2' = IF all # <<>>
                         THEN ingest_to_tier2(tier2, _promote_to_tier2(all))
                         ELSE tier2
  /\ UNCHANGED <<call, ingested, now, ops, tier1, db, patch_registry, suppression_cache,
                 worker, listing>>
  /\ Track

\* ------------------------------------------------------------------------
\* Cluster listing (forensic_analysis_service.py, analysis_service.py,
\* qdrant_service.py)
\* ------------------------------------------------------------------------
\* QdrantService._get_collections_for_window, mutated: range(delta.days)
_get_collections_for_window_exclusive(prefix, start_ts, end_ts) ==
  LET start_day == start_ts \div SECONDS_PER_DAY
      end_day == end_ts \div SECONDS_PER_DAY
  IN [i \in 1..(end_day - start_day) |->
        [prefix |-> prefix, day |-> start_day + i - 1]]

\* QdrantService._get_collections_for_window: one name per day from the day
\* of start_ts to the day of end_ts
_get_collections_for_window(prefix, start_ts, end_ts) ==
  LET start_day == start_ts \div SECONDS_PER_DAY
      end_day == end_ts \div SECONDS_PER_DAY
  IN [i \in 1..(end_day - start_day + 1) |->
        [prefix |-> prefix, day |-> start_day + i - 1]]

\* the points of collection c that pass the query filter: start_ts in
\* [start_ts, end_ts] and, with a text filter, a body that matches it (the
\* representative text of a fingerprint is abstracted to the fingerprint)
Matching(t2, c, start_ts, end_ts, text_filter) ==
  {p \in t2 : /\ p.collection = c
              /\ p.payload.start_ts >= start_ts
              /\ p.payload.start_ts <= end_ts
              /\ text_filter # "" => p.payload.rhythm_hash = text_filter}

\* client.search_groups(group_by="rhythm_hash", group_size=1) on one
\* collection: the group lists it can return. Scores are not modelled: the
\* top hit of a group is any of its matching points, the order is any order.
\* A collection without points answers with no group.
search_groups(t2, c, start_ts, end_ts, text_filter) ==
  LET m == Matching(t2, c, start_ts, end_ts, text_filter)
      ids == {p.payload.rhythm_hash : p \in m}
      tops == {f \in [ids -> m] : \A h \in ids : f[h].payload.rhythm_hash = h}
  IN UNION {{[i \in DOMAIN o |-> [id |-> o[i], hit |-> top[o[i]]]] : top \in tops} :
            o \in Orders(ids)}

\* the fan-in, mutated: the first request that raises ends the loop
RECURSIVE GatherGroups_stop_at_failure(_, _, _, _, _, _)
GatherGroups_stop_at_failure(t2, collections, start_ts, end_ts, text_filter, failed) ==
  IF collections = <<>> \/ Head(collections) \in failed THEN {<<>>}
  ELSE {a \o b :
          a \in search_groups(t2, Head(collections), start_ts, end_ts, text_filter),
          b \in GatherGroups_stop_at_failure(t2, Tail(collections), start_ts,
                                             end_ts, text_filter, failed)}

\* the per-collection group lists appended in the order of `collections`;
\* the request to a collection of `failed` raises (the collection does not
\* exist, or the store does not answer) and adds nothing: the exception is
\* caught and the loop continues (qdrant_service.py 183-190), or gather
\* returns it and it is passed over (forensic_analysis_service.py 55-60)
RECURSIVE GatherGroups(_, _, _, _, _, _)
GatherGroups(t2, collections, start_ts, end_ts, text_filter, failed) ==
  IF collections = <<>> THEN {<<>>}
  ELSE {a \o b :
          a \in IF Head(collections) \in failed THEN {<<>>}
                ELSE search_groups(t2, Head(collections), start_ts, end_ts,
                                   text_filter),
          b \in GatherGroups(t2, Tail(collections), start_ts, end_ts,
                             text_filter, failed)}

\* QdrantService.federated_group_search
federated_group_search(t2, prefix, start_ts, end_ts, text_filter, failed) ==
  GatherGroups(t2, _get_collections_for_window(prefix, start_ts, end_ts),
               start_ts, end_ts, text_filter, failed)

Reorderings(s) == {[i \in DOMAIN s |-> s[o[i]]] : o \in Orders(DOMAIN s)}

\* ForensicAnalysisService.find_tier2_clusters, lines 35-62: the merged
\* groups after the sort by top-hit score
ForensicGroups(t2, start_ts, end_ts, text_filter, failed) ==
  LET collections ==
        IF start_ts # 0 /\ end_ts # 0
        THEN {_get_collections_for_window(TIER_2_COLLECTION_PREFIX, start_ts, end_ts)}
        ELSE Orders({p.collection : p \in t2})
  IN UNION {UNION {Reorderings(g) :
                     g \in GatherGroups(t2, c, start_ts, end_ts, text_filter, failed)} :
            c \in collections}

\* the collections a day-range read asks
RequestedCollections(t2, start_ts, end_ts, all_without_range) ==
  IF all_without_range /\ ~(start_ts # 0 /\ end_ts # 0)
  THEN {p.collection : p \in t2}
  ELSE SeqRange(_get_collections_for_window(TIER_2_COLLECTION_PREFIX,
                                            start_ts, end_ts))

\* how the store scores the points for a request: the newer the closer, or
\* by the rank inside the partition (equal scores in different partitions);
\* scores differ inside a partition
ScoreKinds == {"newest", "per_partition"}

ScoreOf(t2, score_kind, p) ==
  CASE score_kind = "newest" -> p.id
    [] score_kind = "per_partition" ->
         Cardinality({q \in t2 : q.collection = p.collection /\ q.id <= p.id})

\* a ScoredPoint
Hit(t2, score_kind, p) ==
  [id |-> p.id, score |-> ScoreOf(t2, score_kind, p), payload |-> p.payload]

\* the n best of a set of hits, best first (equal scores by id)
TopHits(hits, n) ==
  LET all == hits
      rank == [h \in all |->
                 1 + Cardinality({g \in all : \/ g.score > h.score
                                             \/ (g.score = h.score /\ g.id < h.id)})]
      len == IF Cardinality(all) < n THEN Cardinality(all) ELSE n
  IN [k \in 1..len |-> CHOOSE h \in all : rank[h] = k]

RECOMMEND_LIMIT == 50

\* client.recommend on one collection with limit = 50: the best 50 of its
\* points other than the anchors
recommend(t2, c, positive_ids, negative_ids, score_kind) ==
  TopHits({Hit(t2, score_kind, p) :
             p \in {q \in t2 : q.collection = c /\
                               q.id \notin positive_ids \cup negative_ids}},
          RECOMMEND_LIMIT)

\* client.search on one collection: the points that pass the filter of the
\* search request, best first
search(t2, c, text_filter, score_kind) ==
  LET hits == {Hit(t2, score_kind, p) :
                 p \in {q \in t2 : q.collection = c /\
                          (text_filter # "" => q.payload.rhythm_hash = text_filter)}}
  IN TopHits(hits, Cardinality(hits))

\* the hits of the requests that returned, appended in the order of
\* `collections` (all_hits.extend / results.extend)
RECURSIVE GatherHits(_, _, _)
GatherHits(hits_of, collections, failed) ==
  IF collections = <<>> THEN <<>>
  ELSE (IF Head(collections) \in failed THEN <<>> ELSE hits_of[Head(collections)])
         \o GatherHits(hits_of, Tail(collections), failed)

\* sorted(hits, key=score) without reverse=True
SortByScore_ascending(hits) ==
  LET all == hits
      key == [i \in DOMAIN all |-> all[i].score]
      place == [i \in DOMAIN all |->
                  1 + Cardinality({j \in DOMAIN all :
                                     key[j] < key[i] \/ (key[j] = key[i] /\ j < i)})]
  IN [k \in DOMAIN all |-> all[CHOOSE i \in DOMAIN all : place[i] = k]]

\* sorted(hits, key=score, reverse=True): highest score first, hits of equal
\* score in their order in `hits` (the sort is stable)
SortByScore(hits) ==
  LET all == hits
      key == [i \in DOMAIN all |-> all[i].score]
      place == [i \in DOMAIN all |->
                  1 + Cardinality({j \in DOMAIN all :
                                     key[j] > key[i] \/ (key[j] = key[i] /\ j < i)})]
  IN [k \in DOMAIN all |-> all[CHOOSE i \in DOMAIN all : place[i] = k]]

\* the first n elements of a list (s[:n])
Truncate(s, n) == LET all == s IN SubSeq(all, 1, IF Len(all) < n THEN Len(all) ELSE n)

\* hits as the triage response lists them
HitItems(hits) ==
  LET all == hits
  IN [i \in DOMAIN all |->
        [id |-> all[i].id, score |-> all[i].score, payload |-> all[i].payload]]

\* QdrantService.federated_recommend: the hits of the collections that
\* answered, sorted by score, truncated to the limit of the request
federated_recommend(t2, prefix, start_ts, end_ts, positive_ids, negative_ids, score_kind, failed) ==
  LET collections == _get_collections_for_window(prefix, start_ts, end_ts)
      hits_of == [c \in SeqRange(collections) |->
                    recommend(t2, c, positive_ids, negative_ids, score_kind)]
  IN Truncate(SortByScore(GatherHits(hits_of, collections, failed)), RECOMMEND_LIMIT)

\* AnalysisService.triage_similar_events
triage_similar_events(t2, positive_ids, negative_ids, start_ts, end_ts, score_kind, failed) ==
  IF positive_ids = {} THEN <<>>
  ELSE HitItems(federated_recommend(t2, TIER_2_COLLECTION_PREFIX, start_ts, end_ts,
                                    positive_ids, negative_ids, score_kind, failed))

\* ForensicAnalysisService.triage_similar_events: gather over the
\* collections, exceptions passed over, sort, first 50
forensic_triage_similar_events(t2, positive_ids, negative_ids, start_ts, end_ts, score_kind, failed) ==
  IF positive_ids = {} THEN <<>>
  ELSE LET collections ==
             _get_collections_for_window(TIER_2_COLLECTION_PREFIX, start_ts, end_ts)
           hits_of == [c \in SeqRange(collections) |->
                         recommend(t2, c, positive_ids, negative_ids, score_kind)]
           all_hits == SortByScore(GatherHits(hits_of, collections, failed))
       IN HitItems(Truncate(all_hits, RECOMMEND_LIMIT))

\* the partitions a triage request asks: none without positive ids
TriageCollections(t2, positive_ids, start_ts, end_ts) ==
  IF positive_ids = {} THEN {}
  ELSE RequestedCollections(t2, start_ts, end_ts, FALSE)

\* QdrantService.federated_search: gather over the collections, exceptions
\* passed over, all hits sorted by score
federated_search(t2, prefix, start_ts, end_ts, text_filter, score_kind, failed) ==
  LET collections == _get_collections_for_window(prefix, start_ts, end_ts)
      hits_of == [c \in SeqRange(collections) |->
                    search(t2, c, text_filter, score_kind)]
  IN SortByScore(GatherHits(hits_of, collections, failed))

\* lines 63-65: the suppression cache after is_suppressed_or_patched has been
\* called on every group id
RECURSIVE CacheAfterFilter(_, _, _, _)
CacheAfterFilter(patches, supp, groups, t) ==
  IF groups = <<>> THEN supp
  ELSE CacheAfterFilter(patches,
                        cache_after_check(patches, supp, Head(groups).id, t),
                        Tail(groups), t)

\* lines 63-74: the listing built from the sorted groups
ForensicListingOf(groups, patches, supp, t) ==
  LET unpatched_groups ==
        SelectSeq(groups, LAMBDA g : ~is_suppressed_or_patched(patches, supp, g.id, t))
  IN [i \in DOMAIN unpatched_groups |->
        [cluster_id |-> unpatched_groups[i].id,
         incident_count |-> unpatched_groups[i].hit.payload.count,
         top_hit |-> [id |-> unpatched_groups[i].hit.id,
                      payload |-> unpatched_groups[i].hit.payload]]]

\* AnalysisService.find_tier2_clusters, lines 182-185: every group of the
\* federated search is returned (group_size = 1: one hit per group)
AnalysisListingOf(groups) ==
  [i \in DOMAIN groups |->
     [cluster_id |-> groups[i].id,
      incident_count |-> 1,
      top_hit |-> groups[i].hit.payload]]

\* an anomaly payload as the analyzer emits it
Anomaly(h, ts) ==
  [rhythm_hash |-> h, ts |-> ts, seen |-> NOVELTY_MIN_COUNT, anomaly_type |-> "novelty"]

\* what earlier promotions have left in Tier-2: one batch of F and G, or a
\* batch of F followed the next day by a batch of F and G
PromotedTier2 ==
  {ingest_to_tier2({}, promote_anomalies(<<Anomaly("F", ClockStart - SeedOffset),
                                           Anomaly("G", ClockStart - SeedOffset)>>)),
   ingest_to_tier2(
     ingest_to_tier2({}, promote_anomalies(<<Anomaly("F", ClockStart - SeedOffset)>>)),
     promote_anomalies(<<Anomaly("F", ClockStart + SeedOffset),
                         Anomaly("G", ClockStart + SeedOffset)>>))}

\* the service has run for a day and promoted clusters
InitForensic ==
  /\ now = ClockStart + SECONDS_PER_DAY
  /\ ops = 0
  /\ tier1 = EmptyBag
  /\ tier2 \in PromotedTier2
  /\ db = [h \in Hashes |-> "absent"]
  /\ patch_registry = _load_patches(db)
  /\ suppression_cache = EmptyMap
  /\ worker = WorkerIdle
  /\ http = HttpIdle
  /\ thr = [worker |-> {}, http |-> {}]
  /\ listing = NoListing
  /\ call = NoCall
  /\ ingested = NoPoints

\* Tier-2 after a batch of n event clusters of fingerprint F seen at ts was
\* ingested
Promotions(t2, n, ts) ==
  ingest_to_tier2(t2, [i \in 1..n |-> EventPayload("F", <<Anomaly("F", ts)>>)])

\* Tier-2 after a batch on each of two days: few clusters (twice), two partitions that
\* together exceed the recommend limit, one partition that exceeds it alone
TriageStores ==
  {Promotions(Promotions({}, sizes[1], ClockStart - SeedOffset),
              sizes[2], ClockStart + SeedOffset) :
     sizes \in {<<1, 2>>, <<2, 1>>,
                <<(MaxStored + 1) \div 2, (MaxStored + 1) \div 2>>,
                <<2, MaxStored>>}}

\* the service has promoted many clusters on two days
InitTriage ==
  /\ now = ClockStart + SECONDS_PER_DAY
  /\ ops = 0
  /\ tier1 = EmptyBag
  /\ tier2 \in TriageStores
  /\ db = [h \in Hashes |-> "absent"]
  /\ patch_registry = _load_patches(db)
  /\ suppression_cache = EmptyMap
  /\ worker = WorkerIdle
  /\ http = HttpIdle
  /\ thr = [worker |-> {}, http |-> {}]
  /\ listing = NoListing
  /\ call = NoCall
  /\ ingested = NoPoints

\* the queries of the listing requests
ListWindows ==
  {<<0, ClockStart + SECONDS_PER_DAY>>,
   <<ClockStart - SeedOffset, ClockStart + SeedOffset>>,
   <<ClockStart + 1, ClockStart + SECONDS_PER_DAY>>}

TextFilters == {"", "F"}

\* ForensicAnalysisService.find_tier2_clusters on the app registry
ForensicListing ==
  /\ \E w \in ListWindows, text_filter \in TextFilters :
       \E failed \in SUBSET RequestedCollections(tier2, w[1], w[2], TRUE) :
       \E groups \in ForensicGroups(tier2, w[1], w[2], text_filter, failed) :
         /\ listing' = [NoListing EXCEPT
                          !.service = "forensic", !.start_ts = w[1], !.end_ts = w[2],
                          !.text_filter = text_filter,
                          !.result = ForensicListingOf(groups, patch_registry,
                                                       suppression_cache, now),
                          !.silenced = Silenced(patch_registry, suppression_cache, now),
                          !.collections = RequestedCollections(tier2, w[1], w[2], TRUE),
                          !.failed = failed]
         /\ suppression_cache' =
              CacheAfterFilter(patch_registry, suppression_cache, groups, now)
  /\ UNCHANGED <<call, ingested, now, ops, tier1, tier2, db, patch_registry, worker, http>>
  /\ Track

\* POST /analysis/tier2/clusters: AnalysisService.find_tier2_clusters
AnalysisListing ==
  /\ \E w \in ListWindows, text_filter \in TextFilters :
       \E failed \in SUBSET RequestedCollections(tier2, w[1], w[2], FALSE) :
       \E groups \in federated_group_search(tier2, TIER_2_COLLECTION_PREFIX,
                                            w[1], w[2], text_filter, failed) :
         listing' = [NoListing EXCEPT
                       !.service = "analysis", !.start_ts = w[1], !.end_ts = w[2],
                       !.text_filter = text_filter,
                       !.result = AnalysisListingOf(groups),
                       !.silenced = Silenced(patch_registry, suppression_cache, now),
                       !.collections = RequestedCollections(tier2, w[1], w[2], FALSE),
                       !.failed = failed]
  /\ UNCHANGED <<call, ingested, now, ops, tier1, tier2, db, patch_registry, suppression_cache,
                 worker, http>>
  /\ Track

\* the windows of the triage requests: two days, one day
TriageWindows ==
  {<<ClockStart - SeedOffset, ClockStart + SeedOffset>>,
   <<ClockStart + 1, ClockStart + SECONDS_PER_DAY>>}

\* the anchors of a triage request: none, or the second stored cluster
AnchorSets == {{}} \cup {{p.id} : p \in {q \in tier2 : q.id = 2}}

\* POST /analysis/tier2/triage: AnalysisService.triage_similar_events
TriageSimilarEvents ==
  /\ \E w \in TriageWindows, positive_ids \in AnchorSets, score_kind \in ScoreKinds :
       \E failed \in SUBSET TriageCollections(tier2, positive_ids, w[1], w[2]) :
         listing' = [NoListing EXCEPT
                       !.service = "triage", !.start_ts = w[1], !.end_ts = w[2],
                       !.collections = TriageCollections(tier2, positive_ids, w[1], w[2]),
                       !.failed = failed, !.anchors = positive_ids,
                       !.score_kind = score_kind,
                       !.hits = triage_similar_events(tier2, positive_ids, {}, w[1],
                                                      w[2], score_kind, failed)]
  /\ UNCHANGED <<call, ingested, now, ops, tier1, tier2, db, patch_registry, suppression_cache,
                 worker, http>>
  /\ Track

\* ForensicAnalysisService.triage_similar_events
ForensicTriage ==
  /\ \E w \in TriageWindows, positive_ids \in AnchorSets, score_kind \in ScoreKinds :
       \E failed \in SUBSET TriageCollections(tier2, positive_ids, w[1], w[2]) :
         listing' = [NoListing EXCEPT
                       !.service = "forensic_triage", !.start_ts = w[1], !.end_ts = w[2],
                       !.collections = TriageCollections(tier2, positive_ids, w[1], w[2]),
                       !.failed = failed, !.anchors = positive_ids,
                       !.score_kind = score_kind,
                       !.hits = forensic_triage_similar_events(tier2, positive_ids, {},
                                                               w[1], w[2], score_kind,
                                                               failed)]
  /\ UNCHANGED <<call, ingested, now, ops, tier1, tier2, db, patch_registry, suppression_cache,
                 worker, http>>
  /\ Track

\* QdrantService.federated_search over the Tier-2 partitions of a window
FederatedSearch ==
  /\ \E w \in ListWindows, text_filter \in TextFilters, score_kind \in ScoreKinds :
       \E failed \in SUBSET RequestedCollections(tier2, w[1], w[2], FALSE) :
         listing' = [NoListing EXCEPT
                       !.service = "search", !.start_ts = w[1], !.end_ts = w[2],
                       !.text_filter = text_filter,
                       !.collections = RequestedCollections(tier2, w[1], w[2], FALSE),
                       !.failed = failed, !.score_kind = score_kind,
                       !.hits = HitItems(federated_search(tier2, TIER_2_COLLECTION_PREFIX,
                                                          w[1], w[2], text_filter,
                                                          score_kind, failed))]
  /\ UNCHANGED <<call, ingested, now, ops, tier1, tier2, db, patch_registry, suppression_cache,
                 worker, http>>
  /\ Track

\* the worker's analyzer with the ingestion path and the control endpoints
Next ==
  \/ Tick
  \/ Ingest
  \/ Suppress
  \/ Patch
  \/ DeletePatch
  \/ DeleteSuppression
  \/ WorkerEnter
  \/ WorkerRecentRead
  \/ WorkerClassify
  \/ WorkerPromote
  \/ WorkerWake

Spec == Init /\ [][Next]_vars

\* the worker and an analysis request, with ingestion and suppression
NextApi ==
  \/ Tick
  \/ Ingest
  \/ Suppress
  \/ WorkerEnter
  \/ WorkerRecentRead
  \/ WorkerClassify
  \/ WorkerPromote
  \/ WorkerWake
  \/ HttpEnter
  \/ HttpRecentRead
  \/ HttpHistoricalRead
  \/ HttpClassify

SpecApi == Init /\ [][NextApi]_vars

\* the worker's analyzer over a known fingerprint
NextRhythm ==
  \/ Tick
  \/ WorkerEnter
  \/ WorkerRecentRead
  \/ WorkerClassify
  \/ WorkerPromote
  \/ WorkerWake

SpecRhythm == InitRhythm /\ [][NextRhythm]_vars

SpecRounding == InitRounding /\ [][NextRhythm]_vars

\* the cluster listings over promoted clusters, with the control endpoints
NextForensic ==
  \/ Tick
  \/ Suppress
  \/ Patch
  \/ DeletePatch
  \/ DeleteSuppression
  \/ ForensicListing
  \/ AnalysisListing

SpecForensic == InitForensic /\ [][NextForensic]_vars

\* the federated reads of Tier-2, any of whose partitions may fail, and
\* patches for the registry filter of the listing
NextFederated ==
  \/ Patch
  \/ ForensicListing
  \/ AnalysisListing
  \/ TriageSimilarEvents
  \/ ForensicTriage
  \/ FederatedSearch

SpecFederated == InitForensic /\ [][NextFederated]_vars

\* the triage reads over a store larger than the recommend limit
NextTriage ==
  \/ TriageSimilarEvents
  \/ ForensicTriage

SpecTriage == InitTriage /\ [][NextTriage]_vars

\* the periodic worker with failing analyses and its sleep, and ingestion
NextWorker ==
  \/ Tick
  \/ Ingest
  \/ WorkerEnter
  \/ WorkerRecentRead
  \/ WorkerClassify
  \/ WorkerPromote
  \/ WorkerFail
  \/ WorkerSleep
  \/ WorkerWake

SpecWorker == Init /\ [][NextWorker]_vars

\* the periodic worker alone
NextTicks ==
  \/ WorkerEnter
  \/ WorkerRecentRead
  \/ WorkerClassify
  \/ WorkerPromote
  \/ WorkerFail
  \/ WorkerSleep
  \/ WorkerWake

\* the timer of the sleep fires and the event loop resumes the worker when
\* its sleep is over
SpecWorkerFair ==
  /\ InitRhythm
  /\ [][NextTicks]_vars
  /\ WF_vars(WorkerSleep)
  /\ WF_vars(WorkerWake)
  /\ WF_vars(WorkerEnter)

\* ------------------------------------------------------------------------
\* The /control endpoints on app.state.control_service, with their
\* responses, the registry checks of the analyzers, and a process restart
\* ------------------------------------------------------------------------
\* halves of a second by which time.time() exceeds int(time.time())
TimeFractions == {0, 1}

\* POST /control/suppress
suppress_rhythm_anomaly ==
  /\ ops < MaxOps
  /\ \E h \in Hashes, d \in Durations :
       /\ suppression_cache' = suppress_anomaly(suppression_cache, h, now, d)
       /\ call' = [NoCall EXCEPT !.op = "suppress", !.rhythm_hash = h,
                                 !.duration_sec = d, !.t = now,
                                 !.prev_expiry = IF h \in DOMAIN suppression_cache
                                                 THEN suppression_cache[h] ELSE 0,
                                 !.status = "ok"]
  /\ ops' = ops + 1
  /\ UNCHANGED <<ingested, now, tier1, tier2, db, patch_registry, worker, http, thr, listing>>

\* POST /control/patch: the transaction commits or raises, and an exception
\* of patch_anomaly leaves the handler as an error response
patch_rhythm_anomaly ==
  /\ ops < MaxOps
  /\ \E h \in Hashes, committed \in BOOLEAN :
       LET r == patch_anomaly(db, patch_registry, h, committed)
       IN /\ db' = r.db
          /\ patch_registry' = r.patch_registry
          /\ call' = [NoCall EXCEPT !.op = "patch", !.rhythm_hash = h, !.t = now,
                                    !.prev_row = db[h],
                                    !.status = IF r.raised THEN "error" ELSE "ok"]
  /\ ops' = ops + 1
  /\ UNCHANGED <<ingested, now, tier1, tier2, suppression_cache, worker, http, thr, listing>>

\* DELETE /control/patch/{rhythm_hash}
delete_patch_rule ==
  /\ ops < MaxOps
  /\ \E h \in Hashes, committed \in BOOLEAN :
       LET r == delete_patch(db, patch_registry, h, committed)
       IN /\ db' = r.db
          /\ patch_registry' = r.patch_registry
          /\ call' = [NoCall EXCEPT !.op = "delete_patch", !.rhythm_hash = h,
                                    !.t = now, !.prev_row = db[h],
                                    !.status = IF r.raised THEN "error" ELSE "ok"]
  /\ ops' = ops + 1
  /\ UNCHANGED <<ingested, now, tier1, tier2, suppression_cache, worker, http, thr, listing>>

\* DELETE /control/suppress/{rhythm_hash}
delete_suppression_rule ==
  /\ ops < MaxOps
  /\ \E h \in Hashes :
       /\ suppression_cache' = delete_suppression(suppression_cache, h)
       /\ call' = [NoCall EXCEPT !.op = "delete_suppression", !.rhythm_hash = h,
                                 !.t = now,
                                 !.prev_expiry = IF h \in DOMAIN suppression_cache
                                                 THEN suppression_cache[h] ELSE 0,
                                 !.status = "ok"]
  /\ ops' = ops + 1
  /\ UNCHANGED <<ingested, now, tier1, tier2, db, patch_registry, worker, http, thr, listing>>

\* GET /control/rules, answered frac half seconds into the second now
get_all_active_rules ==
  /\ \E frac \in TimeFractions :
       call' = [NoCall EXCEPT !.op = "rules", !.t = now, !.frac = frac,
                              !.rules = get_all_rules(db, suppression_cache, now),
                              !.status = "ok"]
  /\ UNCHANGED <<ingested, now, ops, tier1, tier2, db, patch_registry, suppression_cache,
                 worker, http, thr, listing>>

\* an analyzer asks the registry about one fingerprint
\* (ControlService.is_suppressed_or_patched)
RegistryCheck ==
  /\ \E h \in Hashes :
       /\ suppression_cache' = cache_after_check(patch_registry, suppression_cache, h, now)
       /\ call' = [NoCall EXCEPT !.op = "check", !.rhythm_hash = h, !.t = now,
                                 !.prev_supp = suppression_cache,
                                 !.status =
                                   IF is_suppressed_or_patched(patch_registry,
                                                               suppression_cache, h, now)
                                   THEN "silenced" ELSE "clear"]
  /\ UNCHANGED <<ingested, now, ops, tier1, tier2, db, patch_registry, worker, http, thr, listing>>

\* the process is restarted: ControlService.__init__ on the same database file
Restart ==
  /\ ops < MaxOps
  /\ suppression_cache' = EmptyMap
  /\ patch_registry' = _load_patches(db)
  /\ call' = [NoCall EXCEPT !.op = "restart", !.t = now,
                            !.prev_patches = patch_registry, !.status = "ok"]
  /\ ops' = ops + 1
  /\ UNCHANGED <<ingested, now, tier1, tier2, db, worker, http, thr, listing>>

NextControl ==
  \/ Tick
  \/ suppress_rhythm_anomaly
  \/ patch_rhythm_anomaly
  \/ delete_patch_rule
  \/ delete_suppression_rule
  \/ get_all_active_rules
  \/ RegistryCheck
  \/ Restart

SpecControl == Init /\ [][NextControl]_vars

\* ------------------------------------------------------------------------
\* POST /ingest/stream, one record at a time
\* ------------------------------------------------------------------------
\* IngestionService.ingest_log_batch: the point prepared for a record; the
\* last two are kept
ingest_log_batch ==
  /\ \E r \in LogRecords :
       ingested' = IF ingested = <<>> THEN <<PreparedPoints[r]>>
                   ELSE <<ingested[Len(ingested)], PreparedPoints[r]>>
  /\ UNCHANGED <<now, ops, tier1, tier2, db, patch_registry, suppression_cache,
                 worker, http, thr, listing, call>>

NextFingerprint == ingest_log_batch

\* POST /ingest/stream with a batch of records: IngestionService.
\* ingest_log_batch prepares the points and hands them to
\* embed_and_upsert_tier1; an exception ends the request
ingest_stream ==
  /\ ops < MaxOps
  /\ \E n \in 1..MaxBatch :
       \E logs \in [1..n -> BatchRecords] :
         LET prepared == points_to_prepare(logs)
             upserted == embed_and_upsert_tier1(tier1, prepared.points)
         IN IF prepared.raised
            THEN /\ tier1' = tier1
                 /\ call' = [NoCall EXCEPT !.op = "ingest", !.batch = logs,
                                           !.status = "500"]
            ELSE /\ tier1' = upserted.tier1
                 /\ call' = [NoCall EXCEPT !.op = "ingest", !.batch = logs,
                                           !.status = "200",
                                           !.count = upserted.count,
                                           !.stored = prepared.points]
  /\ ops' = ops + 1
  /\ UNCHANGED <<ingested, now, tier2, db, patch_registry, suppression_cache,
                 worker, http, thr, listing>>

\* timestamps at and around the ends of three days
WindowTimes ==
  {0, ClockStart - SeedOffset, ClockStart, ClockStart + 1, ClockStart + SeedOffset,
   ClockStart + SECONDS_PER_DAY, ClockStart + SECONDS_PER_DAY + 1,
   ClockStart + 2 * SECONDS_PER_DAY + SeedOffset}

\* a reader computes the collections of a window and a writer the collection
\* of a timestamp (QdrantService._get_collections_for_window and
\* _get_daily_collection_name)
collections_for_window ==
  /\ \E start_ts \in WindowTimes, end_ts \in WindowTimes, ts \in WindowTimes :
       listing' = [NoListing EXCEPT
                     !.service = "window", !.start_ts = start_ts, !.end_ts = end_ts,
                     !.ts = ts,
                     !.name = _get_daily_collection_name(TIER_2_COLLECTION_PREFIX, ts),
                     !.names = _get_collections_for_window(TIER_2_COLLECTION_PREFIX,
                                                           start_ts, end_ts)]
  /\ UNCHANGED <<call, ingested, now, ops, tier1, tier2, db, patch_registry,
                 suppression_cache, worker, http, thr>>

NextWindow == collections_for_window

SpecWindow == Init /\ [][NextWindow]_vars

\* a service that has just started, Tier-1 empty
InitIngest == Init /\ tier1 = EmptyBag

NextIngest == ingest_stream

SpecIngest == InitIngest /\ [][NextIngest]_vars

SpecFingerprint == Init /\ [][NextFingerprint]_vars

\* ------------------------------------------------------------------------
\* Properties
\* ------------------------------------------------------------------------
AnomalyHashes(anomalies) == {anomalies[i].rhythm_hash : i \in DOMAIN anomalies}

\* the fingerprints of the result {novel_anomalies, frequency_anomalies}
EmittedHashes(inv) == AnomalyHashes(inv.novel) \cup AnomalyHashes(inv.freq)

EmittedAnomalies(inv) == SeqRange(inv.novel) \cup SeqRange(inv.freq)

WorkerClassified == worker.pc \in {"await_promote", "sleep"}

WorkerPromoted == worker.pc = "sleep" /\ worker.all_anomalies # <<>>

WorkerInProgress == worker.pc \in {"await_recent", "await_hist", "await_promote"}

HttpInProgress == http.pc = "await_reads"

C3_SuppressionSeenByEveryAnalysis ==
  /\ \A h \in thr.worker : h \notin EmittedHashes(worker)
  /\ \A h \in thr.http : h \notin EmittedHashes(http)

\* C2 (as claimed): no cluster listing, of either find_tier2_clusters,
\* returns a cluster_id that the Control Registry silences (active patch or
\* non-expired suppression) at the time the listing is built.
C2_ListingNeverSurfacesSilenced ==
  \A i \in DOMAIN listing.result :
    listing.result[i].cluster_id \notin listing.silenced

\* C4: once F is patched, is_silenced(F) stays true whatever time passes and
\* whatever suppress / delete_suppression and operations on other
\* fingerprints do; only delete_patch(F) ends it, and a fingerprint without
\* an active patch is silenced only through a non-expired suppression.
C4_PatchHoldsUntilDeleted ==
  [][\A h \in Hashes :
       /\ (h \in patch_registry /\ db[h] = "active" /\ db'[h] = "active") =>
            is_suppressed_or_patched(patch_registry', suppression_cache', h, now')
       /\ (h \in patch_registry /\ h \notin patch_registry') =>
            (db[h] = "active" /\ db'[h] = "inactive")
       /\ (h \notin patch_registry' /\
             is_suppressed_or_patched(patch_registry', suppression_cache', h, now')) =>
            (h \in DOMAIN suppression_cache' /\ now' < suppression_cache'[h])]_vars

\* C4 witness: F was patched and the patch deleted again; F is still
\* silenced, through a suppression that has not expired.
C4_Witness ==
  /\ db["F"] = "inactive"
  /\ "F" \notin patch_registry
  /\ "F" \in DOMAIN suppression_cache
  /\ now < suppression_cache["F"]
  /\ is_suppressed_or_patched(patch_registry, suppression_cache, "F", now)

\* C5 (as claimed): at most one analyzer invocation is between entry and
\* return at any time.
C5_OneInvocationAtATime == ~(WorkerInProgress /\ HttpInProgress)

\* C6: the fingerprints handed to the Promotion Service are exactly those of
\* the returned lists; what the invocation writes to Tier-2 is of an emitted
\* fingerprint and never of one that is_silenced skipped; with no anomaly
\* (also with an empty recent window) nothing is written.
C6_PromotionOnlyOfEmitted ==
  /\ AnomalyHashes(worker.all_anomalies) = EmittedHashes(worker)
  /\ \A e \in worker.written :
       /\ e.payload.rhythm_hash \in EmittedHashes(worker)
       /\ e.payload.rhythm_hash \notin worker.skipped
  /\ WorkerPromoted =>
       {e.payload.rhythm_hash : e \in worker.written} = EmittedHashes(worker)
  /\ worker.pc = "await_promote" => worker.all_anomalies # <<>>

\* C6 witness: a promotion is complete in an invocation that skipped a
\* silenced fingerprint and emitted a frequency anomaly.
C6_Witness ==
  /\ WorkerPromoted
  /\ worker.skipped # {}
  /\ worker.freq # <<>>
  /\ worker.written # {}

\* C7: once the promotion of an invocation is complete, every emitted anomaly
\* A has an EventCluster in the partition named for A.ts with A's rhythm_hash
\* and start_ts <= A.ts <= end_ts, and the invocation has written exactly one
\* EventCluster per emitted rhythm_hash.
C7_PromotionComplete ==
  WorkerPromoted =>
    /\ \A a \in EmittedAnomalies(worker) :
         \E e \in worker.written :
           /\ e \in tier2
           /\ e.collection.prefix = TIER_2_COLLECTION_PREFIX
           /\ e.collection.day = a.ts \div SECONDS_PER_DAY
           /\ e.payload.rhythm_hash = a.rhythm_hash
           /\ e.payload.start_ts <= a.ts
           /\ a.ts <= e.payload.end_ts
    /\ \A h \in Hashes :
         Cardinality({e \in worker.written : e.payload.rhythm_hash = h}) =
           IF h \in EmittedHashes(worker) THEN 1 ELSE 0

\* C7 witness: a complete promotion of a fingerprint that has recent points
\* at two different seconds.
C7_Witness ==
  /\ WorkerPromoted
  /\ worker.written # {}
  /\ \E h \in EmittedHashes(worker) : Cardinality(TimesOf(worker.recent, h)) = 2

\* C8 (as claimed): the EventCluster promoted for an emitted fingerprint h
\* has count = number of recent Tier-1 points of h, start_ts and end_ts the
\* least and greatest ts of those points.
C8_ClusterSummarisesWindow ==
  \A e \in worker.written :
    LET h == e.payload.rhythm_hash
    IN /\ e.payload.count = CountOf(worker.recent, h)
       /\ e.payload.start_ts = MinOf(TimesOf(worker.recent, h))
       /\ e.payload.end_ts = MaxOf(TimesOf(worker.recent, h))

\* C9: every Tier-2 point lies in the partition <tier2_prefix>_<date> of the
\* date of its own payload.start_ts, also when one batch spans two days.
C9_DailyPartitionConsistent ==
  \A e \in tier2 :
    /\ e.collection.prefix = TIER_2_COLLECTION_PREFIX
    /\ e.collection.day * SECONDS_PER_DAY <= e.payload.start_ts
    /\ e.payload.start_ts < (e.collection.day + 1) * SECONDS_PER_DAY

\* C9 witness: one promotion batch has written clusters of two different days.
C9_Witness ==
  \E e1, e2 \in worker.written : e1.collection.day # e2.collection.day

\* for a fingerprint of the recent window that was not skipped as silenced and
\* is not in the known set: a novelty is emitted iff count >= NOVELTY_MIN_COUNT
NoveltyBoundary(inv) ==
  \A h \in HashesOf(inv.recent) :
    (h \notin inv.skipped /\ h \notin inv.known) =>
      (h \in AnomalyHashes(inv.novel) <=>
         CountOf(inv.recent, h) >= NOVELTY_MIN_COUNT)

\* C10 (as claimed): in every analyzer, a non-silenced fingerprint outside the
\* known set is emitted as a novelty iff its recent count is at least
\* NOVELTY_MIN_COUNT.
C10_NoveltyMinCount ==
  /\ WorkerClassified => NoveltyBoundary(worker)
  /\ http.pc = "idle" => NoveltyBoundary(http)

\* the historical sample of the worker's invocation (below the sample cap it
\* is every point before the window)
WorkerHistory == PointsBefore(tier1, worker.t - ANALYSIS_INTERVAL_SEC)

\* newest(hist_sample).ts - oldest(hist_sample).ts, at least 1
WorkerHistDuration ==
  Max2(1, MaxOf({p.ts : p \in DOMAIN WorkerHistory})
            - MinOf({p.ts : p \in DOMAIN WorkerHistory}))

\* count > mean + 2.5 * max(1.5, sqrt(mean)) for
\* mean = c_h * window_sec / duration = n / d in lowest terms
OverClaimedThreshold(count, c_h, window_sec, duration) ==
  LET g == GCD(c_h * window_sec, duration)
      n == (c_h * window_sec) \div g
      d == duration \div g
      x == count * d - n
  IN /\ 4 * x > 15 * d
     /\ 4 * x * x > 25 * n * d

\* count >= mean + 2.5 * max(1.5, sqrt(mean))
ReachesClaimedThreshold(count, c_h, window_sec, duration) ==
  LET g == GCD(c_h * window_sec, duration)
      n == (c_h * window_sec) \div g
      d == duration \div g
      x == count * d - n
  IN /\ 4 * x >= 15 * d
     /\ 4 * x * x >= 25 * n * d

\* the known, non-silenced fingerprints of a classified worker invocation
WorkerKnownChecked ==
  {h \in HashesOf(worker.recent) : h \in worker.known /\ h \notin worker.skipped}

\* C11 (as claimed): for a non-silenced known fingerprint h a frequency
\* anomaly is emitted iff count_h > mean_h + 2.5 * std_h and
\* count_h >= FREQUENCY_MIN_COUNT, with mean_h = c_h * window_sec /
\* max(1, newest_ts - oldest_ts) and std_h = max(1.5, sqrt(mean_h)); so with
\* 12 occurrences over 3600 s and a 60 s window count 3 emits nothing and
\* counts 4 and 5 emit.
C11_FrequencyIffOverThreshold ==
  WorkerClassified =>
    \A h \in WorkerKnownChecked :
      h \in AnomalyHashes(worker.freq) <=>
        /\ OverClaimedThreshold(CountOf(worker.recent, h), CountOf(WorkerHistory, h),
                                ANALYSIS_INTERVAL_SEC, WorkerHistDuration)
        /\ CountOf(worker.recent, h) >= FREQUENCY_MIN_COUNT

\* C12 (as claimed): for a non-silenced known fingerprint h, if
\* count_h = ceil(mean_h + 2.5 * std_h) and count_h >= FREQUENCY_MIN_COUNT
\* then a frequency anomaly is emitted for h.
C12_CeilingEmits ==
  WorkerClassified =>
    \A h \in WorkerKnownChecked :
      LET count == CountOf(worker.recent, h)
          c_h == CountOf(WorkerHistory, h)
      IN (/\ ReachesClaimedThreshold(count, c_h, ANALYSIS_INTERVAL_SEC,
                                     WorkerHistDuration)
          /\ ~ReachesClaimedThreshold(count - 1, c_h, ANALYSIS_INTERVAL_SEC,
                                      WorkerHistDuration)
          /\ count >= FREQUENCY_MIN_COUNT)
         => h \in AnomalyHashes(worker.freq)

\* C12 (amended): for a non-silenced known fingerprint h, if count_h is the
\* least integer strictly greater than mean_h + 2.5 * std_h (the ceiling,
\* unless the threshold is itself an integer) and
\* count_h >= FREQUENCY_MIN_COUNT, then a frequency anomaly is emitted for h.
C12_LeastCountAboveEmits ==
  WorkerClassified =>
    \A h \in WorkerKnownChecked :
      LET count == CountOf(worker.recent, h)
          c_h == CountOf(WorkerHistory, h)
      IN (/\ OverClaimedThreshold(count, c_h, ANALYSIS_INTERVAL_SEC,
                                  WorkerHistDuration)
          /\ ~OverClaimedThreshold(count - 1, c_h, ANALYSIS_INTERVAL_SEC,
                                   WorkerHistDuration)
          /\ count >= FREQUENCY_MIN_COUNT)
         => h \in AnomalyHashes(worker.freq)

\* C12 witness: with 12 occurrences of G over 3600 s the threshold is 3.95;
\* the invocation has seen G 4 times and has emitted it as a frequency
\* anomaly.
C12_Witness ==
  /\ WorkerClassified
  /\ "G" \in WorkerKnownChecked
  /\ CountOf(WorkerHistory, "G") = 12
  /\ WorkerHistDuration = 3600
  /\ CountOf(worker.recent, "G") = 4
  /\ "G" \in AnomalyHashes(worker.freq)


\* ------------------------------------------------------------------------
\* Control registry claims (SpecControl)
\* ------------------------------------------------------------------------
\* the last request, when it was a successful one of the named operation
LastCall(op) == call.op = op /\ call.status = "ok"

\* C13: calling suppress for a fingerprint that already has a suppression
\* overwrites it: the fingerprint has one entry, and its expiry is the time
\* of the latest call plus that call's duration, whether that is earlier or
\* later than the expiry it replaces
C13_SuppressOverwrites ==
  LastCall("suppress") =>
    /\ call.rhythm_hash \in DOMAIN suppression_cache
    /\ suppression_cache[call.rhythm_hash] = call.t + call.duration_sec
    /\ Cardinality({x \in DOMAIN suppression_cache : x = call.rhythm_hash}) = 1

\* a second suppress has shortened an entry
C13_Witness ==
  /\ LastCall("suppress")
  /\ call.prev_expiry > call.t + call.duration_sec
  /\ call.rhythm_hash \in DOMAIN suppression_cache

\* C14: patch and delete_patch change the in-memory patch set only when the
\* durable write has committed; when the write fails the request ends in an
\* error and the in-memory patch set and the suppression map are as before
C14_MemoryFollowsCommit ==
  [][call'.op \in {"patch", "delete_patch"} =>
       /\ call'.status = "error" =>
            /\ patch_registry' = patch_registry
            /\ suppression_cache' = suppression_cache
            /\ db' = db
       /\ patch_registry' # patch_registry =>
            /\ call'.status = "ok"
            /\ db'[call'.rhythm_hash] =
                 (IF call'.op = "patch" THEN "active" ELSE "inactive")]_vars

\* a delete_patch has failed on a patched fingerprint while a suppression
\* is held
C14_Witness ==
  /\ call.op = "delete_patch"
  /\ call.status = "error"
  /\ call.rhythm_hash \in patch_registry
  /\ suppression_cache # EmptyMap

\* C15: at startup and after every patch or delete_patch, successful or
\* failed, the in-memory patch set is the set of fingerprints whose row has
\* is_active = 1; a restart rebuilds the same set and starts with an empty
\* suppression map
C15_MemoryMirrorsActiveRows ==
  /\ patch_registry = {h \in Hashes : db[h] = "active"}
  /\ LastCall("restart") =>
       /\ patch_registry = call.prev_patches
       /\ suppression_cache = EmptyMap

\* a restart after a patch was deactivated
C15_Witness ==
  /\ LastCall("restart")
  /\ \E h \in Hashes : db[h] = "inactive"

\* C16: patch on a fingerprint whose row was deactivated reactivates that
\* row and puts the fingerprint back into the active set, so after patch,
\* delete_patch, patch the fingerprint is silenced and listed
C16_PatchReactivates ==
  (LastCall("patch") /\ call.prev_row = "inactive") =>
    /\ db[call.rhythm_hash] = "active"
    /\ call.rhythm_hash \in patch_registry
    /\ is_suppressed_or_patched(patch_registry, suppression_cache,
                                call.rhythm_hash, now)
    /\ call.rhythm_hash \in get_all_rules(db, suppression_cache, now).patches

\* patch, delete_patch, patch of one fingerprint
C16_Witness == LastCall("patch") /\ call.prev_row = "inactive"

\* the suppression map with its expiries in half seconds
HalfSeconds(supp) == [x \in DOMAIN supp |-> 2 * supp[x]]

\* the fingerprints a rules response lists
Listed(rules) == rules.patches \cup {s.rhythm_hash : s \in rules.suppressions}

\* C17: the rules listing is exactly the active patches of the durable
\* store and the suppressions whose expiry is in the future, each with its
\* expiry; a fingerprint is listed iff the registry silences it at that
\* instant, so an expired or deleted suppression and a deactivated patch
\* are not listed
C17_ListingIsWhatSilences ==
  (LastCall("rules") /\ call.t = now) =>
    /\ call.rules.patches = {h \in Hashes : db[h] = "active"}
    /\ call.rules.suppressions =
         {[rhythm_hash |-> h, expires_at |-> suppression_cache[h]] :
            h \in {x \in DOMAIN suppression_cache : suppression_cache[x] > now}}
    /\ \A h \in Hashes :
         h \in Listed(call.rules) <=>
           is_suppressed_or_patched(patch_registry, HalfSeconds(suppression_cache),
                                    h, 2 * call.t + call.frac)

\* a listing made while the cache still holds an expired entry
C17_Witness ==
  /\ LastCall("rules")
  /\ call.t = now
  /\ \E h \in DOMAIN suppression_cache : suppression_cache[h] <= now


\* ------------------------------------------------------------------------
\* Fingerprinting claims (SpecFingerprint)
\* ------------------------------------------------------------------------
\* two records have been ingested
BothIngested == Len(ingested) = 2

\* the service and the severity of the record a point was prepared from
ServiceOf(point) == point.service

SeverityOf(point) == point.full_log_json.SeverityText

\* the bodies of two points differ at most in their UUID, their IPv4
\* literal or their number
SameBodyShape(p, q) == p.full_log_json.shape = q.full_log_json.shape

\* C18: two records with the same service and severity whose bodies differ
\* only in a UUID, an IPv4 literal or a numeric substring have the same
\* template and the same fingerprint
C18_VariablePartsDoNotMatter ==
  BothIngested =>
    LET p == ingested[1]
        q == ingested[2]
    IN (/\ ServiceOf(p) = ServiceOf(q)
        /\ SeverityOf(p) = SeverityOf(q)
        /\ SameBodyShape(p, q)) =>
         /\ p.template = q.template
         /\ p.rhythm_hash = q.rhythm_hash

\* C19: the fingerprint depends on the template, the service and the
\* severity only: records that agree on the three have the same
\* fingerprint whatever their timestamps and attributes, and records with
\* the same template and another service or severity have different ones
C19_FingerprintOfTemplateServiceSeverity ==
  BothIngested =>
    LET p == ingested[1]
        q == ingested[2]
    IN p.template = q.template =>
         (p.rhythm_hash = q.rhythm_hash <=>
            (ServiceOf(p) = ServiceOf(q) /\ SeverityOf(p) = SeverityOf(q)))


\* ------------------------------------------------------------------------
\* Federated reads under partition failures (SpecFederated)
\* ------------------------------------------------------------------------
\* the Tier-2 points of the requested partitions that answered
Responded == {p \in tier2 : p.collection \in listing.collections \ listing.failed}

\* of those, the points that pass the filter of a cluster listing
RespondedMatching ==
  UNION {Matching(tier2, c, listing.start_ts, listing.end_ts, listing.text_filter) :
           c \in listing.collections \ listing.failed}

\* C20: a federated read over a day range (cluster listing, triage
\* recommend, federated search) returns a result whichever of its
\* per-partition requests fail or name a missing partition: the result is
\* built from exactly the hits of the partitions that answered (for the
\* registry-filtered listing, those not silenced), and it is empty when
\* every request failed
C20_FederatedReadSurvivesFailures ==
  /\ listing.service \in {"forensic", "analysis"} =>
       LET dropped == IF listing.service = "forensic" THEN listing.silenced ELSE {}
           kept == {p \in RespondedMatching : p.payload.rhythm_hash \notin dropped}
       IN /\ {listing.result[i].cluster_id : i \in DOMAIN listing.result}
               = {p.payload.rhythm_hash : p \in kept}
          /\ Len(listing.result)
               = Cardinality({<<p.collection, p.payload.rhythm_hash>> : p \in kept})
          /\ \A i \in DOMAIN listing.result :
               \E p \in kept :
                 /\ p.payload.rhythm_hash = listing.result[i].cluster_id
                 /\ IF listing.service = "forensic"
                    THEN listing.result[i].top_hit = [id |-> p.id, payload |-> p.payload]
                    ELSE listing.result[i].top_hit = p.payload
  /\ listing.service \in {"triage", "forensic_triage"} =>
       /\ {[id |-> listing.hits[i].id, payload |-> listing.hits[i].payload] :
              i \in DOMAIN listing.hits}
            = {[id |-> p.id, payload |-> p.payload] :
                 p \in {q \in Responded : q.id \notin listing.anchors}}
       /\ \A i, j \in DOMAIN listing.hits :
            listing.hits[i].id = listing.hits[j].id => i = j
  /\ listing.service = "search" =>
       /\ {[id |-> listing.hits[i].id, payload |-> listing.hits[i].payload] :
              i \in DOMAIN listing.hits}
            = {[id |-> p.id, payload |-> p.payload] :
                 p \in {q \in Responded :
                          listing.text_filter # ""
                            => q.payload.rhythm_hash = listing.text_filter}}
       /\ \A i, j \in DOMAIN listing.hits :
            listing.hits[i].id = listing.hits[j].id => i = j
  /\ listing.collections \subseteq listing.failed =>
       listing.result = <<>> /\ listing.hits = <<>>

\* a listing one of whose partitions failed while it held clusters, and
\* which returned the clusters of another that are not silenced
C20_Witness ==
  /\ listing.service = "forensic"
  /\ listing.silenced # {}
  /\ \E p \in tier2 : p.collection \in listing.failed
  /\ listing.result # <<>>

\* the hits a triage request can be answered with: the scored points of the
\* partitions that answered, the anchors left out
TriageCandidates ==
  {Hit(tier2, listing.score_kind, p) :
     p \in {q \in Responded : q.id \notin listing.anchors}}

\* C21: a triage request without positive ids answers the empty list and asks
\* no partition; otherwise every daily partition of the window is asked and
\* the answer lists hits of the partitions that answered, no hit twice,
\* by descending score, the 50 best of them (all when there are fewer), so
\* that no hit left out scores above a listed one
C21_TriageTopFifty ==
  listing.service \in {"triage", "forensic_triage"} =>
    IF listing.anchors = {}
    THEN listing.hits = <<>> /\ listing.collections = {}
    ELSE /\ listing.collections
              = SeqRange(_get_collections_for_window(TIER_2_COLLECTION_PREFIX,
                                                     listing.start_ts, listing.end_ts))
         /\ \A i \in DOMAIN listing.hits : listing.hits[i] \in TriageCandidates
         /\ \A i, j \in DOMAIN listing.hits :
              /\ listing.hits[i].id = listing.hits[j].id => i = j
              /\ i < j => listing.hits[i].score >= listing.hits[j].score
         /\ Len(listing.hits)
              = (IF Cardinality(TriageCandidates) < 50
                 THEN Cardinality(TriageCandidates) ELSE 50)
         /\ \A c \in TriageCandidates :
              c \notin SeqRange(listing.hits)
                => \A i \in DOMAIN listing.hits : c.score <= listing.hits[i].score

\* a triage over two partitions that answered with more than 50 candidates in
\* all, hits of both partitions listed and one of equal score left out
C21_Witness ==
  /\ listing.service \in {"triage", "forensic_triage"}
  /\ listing.anchors # {}
  /\ listing.failed = {}
  /\ Cardinality(listing.collections) = 2
  /\ Cardinality(TriageCandidates) > 50
  /\ Len(listing.hits) = 50
  /\ Cardinality({listing.hits[i].payload.start_ts : i \in DOMAIN listing.hits}) = 2
  /\ \E c \in TriageCandidates :
       c \notin SeqRange(listing.hits) /\ c.score = listing.hits[50].score

\* a tick of the worker whose analysis raised, asleep with the end of its
\* sleep inside the followed intervals
FailedTick ==
  /\ worker.pc = "sleep"
  /\ worker.error
  /\ worker.wake <= ClockStart + MaxIntervals * ANALYSIS_INTERVAL_SEC

\* C22: the worker does not stop when an analysis fails: a tick whose
\* analysis raised is asleep for one interval and is eventually followed by a
\* further invocation of the analysis
C22_FailedTickIsFollowed ==
  /\ [][worker'.error /\ ~worker.error
          => worker'.pc = "sleep" /\ worker'.wake = now + ANALYSIS_INTERVAL_SEC]_vars
  /\ (FailedTick ~> (worker.pc = "await_recent" /\ ~worker.error))

\* an invocation that follows a failed one, one interval after it
C22_Witness ==
  /\ worker.pc = "await_recent"
  /\ worker.prev_error
  /\ worker.t = worker.prev_t + ANALYSIS_INTERVAL_SEC

\* C23: no Tier-1 point is in the recent window of two consecutive
\* invocations of the worker
C23_ConsecutiveWindowsDisjoint ==
  \A p \in DOMAIN worker.recent : p \notin DOMAIN worker.prev_recent

\* the well-formed records of the last posted batch, in their order
WellFormedOfBatch == SelectSeq(call.batch, WellFormed)

\* C24: a malformed record does not fail its batch: the request succeeds,
\* the malformed records are dropped, every well-formed record yields its
\* Tier-1 point and the returned count is the number of well-formed records
C24_MalformedRecordsAreDropped ==
  call.op = "ingest" =>
    /\ call.status = "200"
    /\ call.count = Len(WellFormedOfBatch)
    /\ call.stored = [i \in DOMAIN WellFormedOfBatch |-> PointOf(WellFormedOfBatch[i])]
    /\ \A i \in DOMAIN call.stored :
         Point(call.stored[i].rhythm_hash, call.stored[i].ts) \in DOMAIN tier1

\* C25: the cluster listing is de-duplicated: a cluster_id is listed at
\* most once, also when the range spans several daily partitions that hold
\* the same rhythm_hash
C25_ClusterListedOnce ==
  \A i, j \in DOMAIN listing.result :
    listing.result[i].cluster_id = listing.result[j].cluster_id => i = j

\* C26: the registry check of h answers true exactly when h is an active
\* patch or has a suppression whose expiry is later than now; it answers
\* false from the second of the expiry on and when h has neither
C26_SilencedIffPatchedOrUnexpired ==
  call.op = "check" =>
    (call.status = "silenced"
       <=> \/ call.rhythm_hash \in patch_registry
           \/ /\ call.rhythm_hash \in DOMAIN call.prev_supp
              /\ call.t < call.prev_supp[call.rhythm_hash])

\* a check at the second of the expiry of an unpatched fingerprint: clear
C26_Witness ==
  /\ call.op = "check"
  /\ call.rhythm_hash \notin patch_registry
  /\ call.rhythm_hash \in DOMAIN call.prev_supp
  /\ call.t = call.prev_supp[call.rhythm_hash]
  /\ call.status = "clear"

\* C27: a registry check of h leaves the patch set and the durable store
\* alone and changes the suppression cache at most by removing the entry of h
\* when that entry has expired; a later suppress of h makes a fresh entry
\* that silences h again
C27_CheckRemovesOnlyOwnExpiredEntry ==
  /\ [][RegistryCheck =>
          LET h == call'.rhythm_hash
          IN /\ patch_registry' = patch_registry
             /\ db' = db
             /\ DOMAIN suppression_cache' \subseteq DOMAIN suppression_cache
             /\ \A x \in DOMAIN suppression_cache :
                  x # h \/ now < suppression_cache[x]
                    => /\ x \in DOMAIN suppression_cache'
                       /\ suppression_cache'[x] = suppression_cache[x]]_vars
  /\ [][suppress_rhythm_anomaly =>
          LET h == call'.rhythm_hash
          IN /\ h \in DOMAIN suppression_cache'
             /\ suppression_cache'[h] = now + call'.duration_sec
             /\ is_suppressed_or_patched(patch_registry', suppression_cache', h, now)]_vars

\* a check has removed the expired entry of its fingerprint and left the
\* entry of the other fingerprint in place
C27_Witness ==
  /\ call.op = "check"
  /\ call.rhythm_hash \in DOMAIN call.prev_supp
  /\ call.rhythm_hash \notin DOMAIN suppression_cache
  /\ DOMAIN suppression_cache # {}
  /\ DOMAIN suppression_cache = DOMAIN call.prev_supp \ {call.rhythm_hash}

\* C28: the known set of a worker invocation is the set of fingerprints of
\* its historical sample, whatever the size of the sample, and a fingerprint
\* of the sample is never emitted as a novelty
C28_KnownSetIsHistoricalSample ==
  WorkerClassified /\ worker.recent # EmptyBag =>
    /\ worker.known = HashesOf(WorkerHistory)
    /\ \A h \in HashesOf(WorkerHistory) : h \notin AnomalyHashes(worker.novel)

\* the collections of the calendar days from the day of start_ts to the day
\* of end_ts
DaysOfWindow ==
  {[prefix |-> TIER_2_COLLECTION_PREFIX, day |-> d] :
     d \in (listing.start_ts \div SECONDS_PER_DAY)..(listing.end_ts \div SECONDS_PER_DAY)}

\* C29: for start_ts <= ts <= end_ts the daily collection of ts is among the
\* collections of the window; the window has one name for each calendar day
\* from the day of start_ts to the day of end_ts, none twice, and none when
\* end_ts is on an earlier day than start_ts
C29_WindowCoversItsDays ==
  listing.service = "window" =>
    /\ listing.start_ts <= listing.ts /\ listing.ts <= listing.end_ts
         => listing.name \in SeqRange(listing.names)
    /\ SeqRange(listing.names) = DaysOfWindow
    /\ Len(listing.names) = Cardinality(DaysOfWindow)
    /\ listing.end_ts \div SECONDS_PER_DAY < listing.start_ts \div SECONDS_PER_DAY
         => listing.names = <<>>

\* a window of three days and a timestamp on its second day
C29_Witness ==
  /\ listing.service = "window"
  /\ listing.start_ts < listing.ts
  /\ listing.ts < listing.end_ts
  /\ Len(listing.names) = 3
  /\ listing.name = listing.names[2]

\* the anomalies of the worker's invocation, novelties first
WorkerEmitted == worker.novel \o worker.freq

\* C30: in the result of one invocation every fingerprint appears at most
\* once across novel_anomalies and frequency_anomalies together, and every
\* emitted fingerprint occurs in the recent window of the invocation
C30_EmittedOncePerFingerprint ==
  WorkerClassified =>
    /\ \A i, j \in DOMAIN WorkerEmitted :
         WorkerEmitted[i].rhythm_hash = WorkerEmitted[j].rhythm_hash => i = j
    /\ \A i \in DOMAIN WorkerEmitted :
         WorkerEmitted[i].rhythm_hash \in HashesOf(worker.recent)

\* an invocation that emitted a frequency anomaly and one more anomaly
C30_Witness ==
  /\ WorkerClassified
  /\ worker.freq # <<>>
  /\ Len(WorkerEmitted) = 2

====
